---- MODULE Spec2Model ----
(***************************************************************************)
(* Model of the NEXUS fix queue (hooks/fix_queue.py) together with the     *)
(* parts of the state manager (state_manager.py) it writes to: the pattern *)
(* store (learning_patterns.json) and the metrics (performance_metrics).   *)
(*                                                                         *)
(* Texts are sequences of one-character strings, so that the substring     *)
(* tests, the lower-casing, the stripping and the f-string formatting of   *)
(* the code are computed and not assumed.  Timestamps (_now_iso) are left  *)
(* out of every record: no operation reads them back.  The captured        *)
(* stdout/stderr of a verify command are left out of the result record.    *)
(* The state manager is taken to be importable and its files writable, so  *)
(* that the except branches around its calls in fix_queue.py are not taken.*)
(*                                                                         *)
(* The task manager (task_manager.py) is modelled with current_task.json,  *)
(* tasks.jsonl and a clock in seconds; the timestamps the auto-close rule  *)
(* reads back (started_at, last_quality_gate_fail_at) are kept.  Task ids  *)
(* (a timestamp and six random hex digits) are taken as never repeating.   *)
(* Calls of the task manager and of add_pattern are taken one at a time.   *)
(***************************************************************************)
EXTENDS Integers, Sequences, FiniteSets, TLC

\* ------------------------------------------------------------------ bounds
\* Most calls that change the stores (tasks added, tasks updated, tasks
\* processed) in one behaviour.
MaxCalls == 4
\* Most tasks added to the queue while process_one_task invocations interleave.
MaxConcTasks == 2

VARIABLES
    queue,        \* fix_queue.jsonl: the sequence of task records, in file order
    learning,     \* learning_patterns.json: pattern type -> bucket
    metrics,      \* performance_metrics.json
    nextId,       \* the next fresh task id (ids are time + random: never reused)
    nCalls,       \* number of calls so far that changed the stores
    added,        \* history variable: every task as it was when it was added
    ret,          \* the last call: its operation and what it returned or raised
    pc,           \* per process: position inside an interleaved process_one_task
    loc,          \* per process: the local variables of process_one_task
    attemptedBy,  \* history variable: per invocation, the task ids it moved to attempted
    overlap,      \* history variable: two invocations were in progress at once
    planIn,       \* the incident handed to _incident_to_fix_plan
    planOut,      \* the plan computed from planIn
    current_task, \* current_task.json: <<>> when the file is absent, else <<task>>
    tasks_log,    \* tasks.jsonl: the task lifecycle events, in file order
    active_task,  \* msv.json context.active_task: a task id, 0 for None
    now,          \* the wall clock, in seconds
    policy,       \* the NEXUS_TASK_AUTO_CLOSE* environment of the hooks
    nextTaskId,   \* the next fresh task id (ids are time + random)
    nTaskCalls,   \* number of task manager calls so far that changed a store
    tret,         \* the last task manager call: what it returned or raised
    pcall,        \* the last direct add_pattern call: the arguments it was given
    nPatCalls,    \* number of direct add_pattern calls so far
    learning_file, \* learning_patterns.json as it is on disk, in any schema
    file_writes,  \* number of times learning_patterns.json has been written
    lret,         \* the last call on the file: what it returned or raised
    gpc,          \* the position of the quality gate run in progress
    root,         \* the project root the gate runs on: markers, tools, git index
    fs,           \* the working tree: relative path -> what is there
    grun,         \* the local variables of the gate run in progress
    incidents,    \* incidents.jsonl: the incident records, in file order
    gret,         \* the last gate invocation: what it printed and returned
    nGateRuns,    \* number of gate runs started so far
    NEXUS_GATE_RUNNING, \* the environment flag of the gate process and its children
    fs_at_capture, \* history variable: the working tree when the snapshot was taken
    bpc,          \* the position of the nexus_exec run in progress
    brun,         \* the local variables of the nexus_exec run in progress
    bret,         \* the last nexus_exec run: its summary and exit code
    hret,         \* the last self-heal or auto-learn run: the run it was, what it
                  \* read, printed and returned
    nHookRuns,    \* number of hook and nexus_exec runs started so far
    state_vector  \* msv.json state_vector: blocked, and confidence in tenths

\* The variables of the task manager, apart from the metrics it shares.
tmVars == <<current_task, tasks_log, active_task, now, policy, nextTaskId,
            nTaskCalls, tret>>

\* The variables of the direct calls of add_pattern.
psVars == <<pcall, nPatCalls>>

\* The variables of the state manager's calls on a learning file of any
\* schema.
smVars == <<learning_file, file_writes, lret>>

\* The variables of the quality gate, apart from the stores it shares.
qgVars == <<gpc, root, fs, grun, incidents, gret, nGateRuns,
            NEXUS_GATE_RUNNING, fs_at_capture>>

\* The variables of the self-heal hook, the auto-learn hook and nexus_exec,
\* apart from the stores they share.
hkVars == <<bpc, brun, bret, hret, nHookRuns, state_vector>>

vars == <<queue, learning, metrics, nextId, nCalls, added, ret,
          pc, loc, attemptedBy, overlap, planIn, planOut, tmVars, psVars, smVars, qgVars,
          hkVars>>

\* No learning file yet, and no call made on it.
FileIdle ==
    /\ learning_file = [kind |-> "absent"]
    /\ file_writes = 0
    /\ lret = [op |-> "none"]

\* No gate run yet, on a root with nothing in it.
GateIdle ==
    /\ gpc = "idle"
    /\ root = [tools |-> {}, tracked |-> <<>>, index |-> <<>>]
    /\ fs = <<>>
    /\ grun = [candidate |-> <<>>, changed_summary |-> [count |-> 0, files |-> <<>>],
               snap |-> <<>>, passed |-> TRUE, checks |-> <<>>, signature |-> <<>>,
               suggested_action |-> <<>>, rollback_method |-> "none", timed_out |-> {}]
    /\ incidents = <<>>
    /\ gret = [op |-> "none"]
    /\ nGateRuns = 0
    /\ NEXUS_GATE_RUNNING = FALSE
    /\ fs_at_capture = <<>>

\* nexus_exec is not running and has not run; no hook has run on its own;
\* msv.json holds the state vector of _init_msv.
HooksIdle ==
    /\ bpc = "idle"
    /\ brun = [op |-> "none"]
    /\ bret = [op |-> "none"]
    /\ hret = [op |-> "none"]
    /\ nHookRuns = 0
    /\ state_vector = [blocked |-> FALSE, confidence |-> 5]

\* ------------------------------------------------------------------- texts
\* The empty text: "" and a missing key behave alike wherever the code uses
\* dict.get(key, "") or "x or y".
Empty == <<>>

Upper == <<"A","B","C","D","E","F","G","H","I","J","K","L","M","N","O","P","Q","R","S","T","U","V","W","X","Y","Z">>

Lowers == <<"a","b","c","d","e","f","g","h","i","j","k","l","m","n","o","p","q","r","s","t","u","v","w","x","y","z">>

\* str.lower() on one character.
LowerChar(c) ==
    IF \E i \in 1..Len(Upper) : Upper[i] = c
    THEN Lowers[CHOOSE i \in 1..Len(Upper) : Upper[i] = c]
    ELSE c

\* str.lower()
Lower(t) == [i \in 1..Len(t) |-> LowerChar(t[i])]

\* `pat in text`
Contains(text, pat) ==
    \E i \in 0..(Len(text) - Len(pat)) : SubSeq(text, i + 1, i + Len(pat)) = pat

\* sep.join(parts)
RECURSIVE Join(_, _)
Join(parts, sep) ==
    IF Len(parts) = 0 THEN Empty
    ELSE IF Len(parts) = 1 THEN parts[1]
    ELSE parts[1] \o sep \o Join(Tail(parts), sep)

\* Python's `a or b` on texts.
Or(a, b) == IF a # Empty THEN a ELSE b

IsSpace(c) == c \in {" ", "\n", "\t", "\r"}

\* str.strip()
Strip(t) ==
    LET keep == {i \in 1..Len(t) : ~IsSpace(t[i])}
    IN  IF keep = {} THEN Empty
        ELSE SubSeq(t, CHOOSE i \in keep : \A j \in keep : i <= j,
                       CHOOSE i \in keep : \A j \in keep : i >= j)

\* str.replace("\n", " ")
ReplaceNewlines(t) == [i \in 1..Len(t) |-> IF t[i] = "\n" THEN " " ELSE t[i]]

\* --------------------------------------------------------------- incidents
\* An incident record, with the fields the fix queue reads.  tool_input is
\* the dict of the event (file_path / path), {} when the event had none.
Incident(error, signature, failed_check, incident_class, cwd, tool_file_path, tool_path, file_path, module_name) ==
    [error |-> error, signature |-> signature, failed_check |-> failed_check,
     incident_class |-> incident_class, cwd |-> cwd,
     tool_input |-> [file_path |-> tool_file_path, path |-> tool_path],
     file_path |-> file_path, module_name |-> module_name]

\* The incident the quality gate writes when the pytest check fails
\* (class and failed_check are the check's name, the signature is fixed).
GatePytestIncident ==
    Incident(<<"1"," ","f","a","i","l","e","d">>, <<"p","y","t","e","s","t",":","f","a","i","l">>, <<"p","y","t","e","s","t">>, <<"p","y","t","e","s","t">>, <<"/","w">>, <<"a",".","p","y">>, Empty, Empty, Empty)

\* The incident the self-heal hook writes for a failed import.
HealImportIncident ==
    Incident(<<"N","o"," ","m","o","d","u","l","e"," ","n","a","m","e","d"," ","'","f","o","o","'">>, <<"i","n","c","i","d","e","n","t",":","i","m","p","o","r","t",":","f","o","o">>, Empty, <<"i","m","p","o","r","t","_","e","r","r","o","r">>, <<"/","w">>, Empty, Empty, Empty, Empty)

\* The incidents the queue model is fed with.
Incidents == {GatePytestIncident, HealImportIncident}

\* ---------------------------------------------------------------- fix plan
_default_verify_cmd(project_root) ==
    <<<<"p","y","t","h","o","n","3">>, <<"-","m">>, <<"c","o","m","p","i","l","e","a","l","l">>, <<"-","q">>, project_root>>

\* _incident_to_fix_plan(incident); process_cwd is pathlib.Path.cwd().
_incident_to_fix_plan(incident, process_cwd) ==
    LET error_text == Lower(Join(<<incident.error, incident.signature,
                                   incident.failed_check, incident.incident_class>>, <<" ">>))
        cwd == Or(incident.cwd, process_cwd)
        file_path == Or(incident.tool_input.file_path,
                        Or(incident.tool_input.path, incident.file_path))
        module_name == Or(incident.module_name, <<"<","m","i","s","s","i","n","g","_","m","o","d","u","l","e",">">>)
    IN  IF Contains(error_text, <<"r","u","f","f">>) \/ Contains(error_text, <<"f","4","0","1">>)
        THEN [suggested_fix |-> <<"R","e","m","o","v","e"," ","u","n","u","s","e","d"," ","i","m","p","o","r","t","s","/","v","a","r","i","a","b","l","e","s"," ","t","h","e","n"," ","r","e","r","u","n"," ","r","u","f","f",".">>,
              verify_cmd |-> <<<<"r","u","f","f">>, <<"c","h","e","c","k">>, Or(file_path, cwd)>>]
        ELSE IF Contains(error_text, <<"p","y","t","e","s","t">>) \/ Contains(error_text, <<"a","s","s","e","r","t">>)
                \/ Contains(error_text, <<"t","e","s","t">>)
        THEN [suggested_fix |-> <<"F","i","x"," ","f","a","i","l","i","n","g"," ","t","e","s","t","s"," ","a","n","d"," ","r","e","r","u","n"," ","p","y","t","e","s","t",".">>,
              verify_cmd |-> <<<<"p","y","t","e","s","t">>, <<"-","q">>>>]
        ELSE IF Contains(error_text, <<"s","y","n","t","a","x">>) \/ Contains(error_text, <<"c","o","m","p","i","l","e">>)
        THEN IF file_path # Empty
             THEN [suggested_fix |-> <<"F","i","x"," ","P","y","t","h","o","n"," ","s","y","n","t","a","x"," ","e","r","r","o","r","s"," ","i","n"," ">> \o file_path \o <<".">>,
                   verify_cmd |-> <<<<"p","y","t","h","o","n","3">>, <<"-","m">>, <<"p","y","_","c","o","m","p","i","l","e">>, file_path>>]
             ELSE [suggested_fix |-> <<"F","i","x"," ","P","y","t","h","o","n"," ","s","y","n","t","a","x"," ","e","r","r","o","r","s"," ","d","e","t","e","c","t","e","d"," ","b","y"," ","c","o","m","p","i","l","e","a","l","l",".">>,
                   verify_cmd |-> <<<<"p","y","t","h","o","n","3">>, <<"-","m">>, <<"c","o","m","p","i","l","e","a","l","l">>, <<"-","q">>, cwd>>]
        ELSE IF Contains(error_text, <<"m","o","d","u","l","e">>) \/ Contains(error_text, <<"i","m","p","o","r","t">>)
        THEN [suggested_fix |-> <<"I","n","s","t","a","l","l"," ","o","r"," ","v","e","n","d","o","r"," ","m","i","s","s","i","n","g"," ","m","o","d","u","l","e"," ","BACKTICK">> \o module_name
                                   \o <<"BACKTICK"," ","a","n","d"," ","v","e","r","i","f","y"," ","i","m","p","o","r","t",".">>,
              verify_cmd |-> IF module_name # <<"<","m","i","s","s","i","n","g","_","m","o","d","u","l","e",">">>
                             THEN <<<<"p","y","t","h","o","n","3">>, <<"-","c">>, <<"i","m","p","o","r","t"," ">> \o module_name>>
                             ELSE <<<<"p","y","t","h","o","n","3">>, <<"-","m">>, <<"c","o","m","p","i","l","e","a","l","l">>, <<"-","q">>, cwd>>]
        ELSE IF Contains(error_text, <<"p","e","r","m","i","s","s","i","o","n">>)
        THEN [suggested_fix |-> <<"A","d","j","u","s","t"," ","f","i","l","e"," ","p","e","r","m","i","s","s","i","o","n","s"," ","f","o","r"," ","BACKTICK">> \o Or(file_path, cwd) \o <<"BACKTICK",".">>,
              verify_cmd |-> <<<<"t","e","s","t">>, <<"-","r">>, Or(file_path, cwd)>>]
        ELSE IF Contains(error_text, <<"n","o","t"," ","f","o","u","n","d">>) \/ Contains(error_text, <<"n","o"," ","s","u","c","h"," ","f","i","l","e">>)
        THEN [suggested_fix |-> <<"C","r","e","a","t","e"," ","o","r"," ","c","o","r","r","e","c","t"," ","m","i","s","s","i","n","g"," ","p","a","t","h"," ","BACKTICK">> \o Or(file_path, cwd) \o <<"BACKTICK",".">>,
              verify_cmd |-> <<<<"t","e","s","t">>, <<"-","e">>, Or(file_path, cwd)>>]
        ELSE [suggested_fix |-> <<"I","n","v","e","s","t","i","g","a","t","e"," ","i","n","c","i","d","e","n","t"," ","d","e","t","a","i","l","s"," ","a","n","d"," ","a","p","p","l","y"," ","a"," ","m","i","n","i","m","a","l"," ","d","e","t","e","r","m","i","n","i","s","t","i","c"," ","f","i","x",".">>,
              verify_cmd |-> _default_verify_cmd(cwd)]

\* ----------------------------------------------------------- pattern store
\* NexusStateManager.EXAMPLE_LIMIT
EXAMPLE_LIMIT == 8

\* A dict with no key.
EmptyDict == <<>>

\* _init_learning(): the store before any observation (version, created and
\* insights carry no behaviour and are left out).
_init_learning == [patterns |-> EmptyDict]

\* The bucket patterns.setdefault(safe_type, ...) creates.
NewTypeBucket ==
    [total_count |-> 0, success_count |-> 0, failure_count |-> 0, by_signature |-> EmptyDict]

\* A signature bucket created with its first observation already counted.
NewSignatureBucket_counted ==
    [count |-> 1, success_count |-> 0, failure_count |-> 0, examples |-> <<>>,
     suggested_fix |-> Empty, verify_cmd |-> <<>>, meta |-> EmptyDict]

\* The bucket by_signature.setdefault(safe_signature, ...) creates.
NewSignatureBucket ==
    [count |-> 0, success_count |-> 0, failure_count |-> 0, examples |-> <<>>,
     suggested_fix |-> Empty, verify_cmd |-> <<>>, meta |-> EmptyDict]

\* The example buffer cut to its oldest EXAMPLE_LIMIT entries.
CapExamples_keep_oldest(examples) ==
    IF Len(examples) > EXAMPLE_LIMIT
    THEN SubSeq(examples, 1, EXAMPLE_LIMIT)
    ELSE examples

\* del examples[:-EXAMPLE_LIMIT] when the buffer is over the limit.
CapExamples(examples) ==
    IF Len(examples) > EXAMPLE_LIMIT
    THEN SubSeq(examples, Len(examples) - EXAMPLE_LIMIT + 1, Len(examples))
    ELSE examples

\* _add_pattern_internal.  example is <<>> for None and <<e>> for a dict e;
\* outcome is a text.
_add_pattern_internal(store, pattern_type, signature, example, suggested_fix, verify_cmd, outcome, meta) ==
    LET safe_type == Or(Strip(Or(pattern_type, <<"u","n","k","n","o","w","n">>)), <<"u","n","k","n","o","w","n">>)
        safe_signature == ReplaceNewlines(Strip(Or(signature, <<"u","n","k","n","o","w","n">>)))
        patterns == store.patterns
        type_bucket == IF safe_type \in DOMAIN patterns THEN patterns[safe_type]
                       ELSE NewTypeBucket
        sig_bucket == IF safe_signature \in DOMAIN type_bucket.by_signature
                      THEN type_bucket.by_signature[safe_signature]
                      ELSE NewSignatureBucket
        outcome_norm == Lower(Or(outcome, <<"u","n","k","n","o","w","n">>))
        is_success == outcome_norm = <<"s","u","c","c","e","s","s">>
        is_failure == outcome_norm = <<"f","a","i","l","u","r","e">>
        new_sig ==
            [count |-> sig_bucket.count + 1,
             success_count |-> sig_bucket.success_count + (IF is_success THEN 1 ELSE 0),
             failure_count |-> sig_bucket.failure_count
                               + (IF ~is_success /\ is_failure THEN 1 ELSE 0),
             examples |-> IF Len(example) > 0
                          THEN CapExamples(Append(sig_bucket.examples,
                                   [outcome |-> outcome_norm, example |-> example[1]]))
                          ELSE sig_bucket.examples,
             suggested_fix |-> IF suggested_fix # Empty THEN suggested_fix
                               ELSE sig_bucket.suggested_fix,
             verify_cmd |-> IF Len(verify_cmd) > 0 THEN verify_cmd ELSE sig_bucket.verify_cmd,
             meta |-> IF DOMAIN meta # {} THEN meta ELSE sig_bucket.meta]
        new_type ==
            [total_count |-> type_bucket.total_count + 1,
             success_count |-> type_bucket.success_count + (IF is_success THEN 1 ELSE 0),
             failure_count |-> type_bucket.failure_count
                               + (IF ~is_success /\ is_failure THEN 1 ELSE 0),
             by_signature |-> (safe_signature :> new_sig) @@ type_bucket.by_signature]
    IN  [store EXCEPT !.patterns = (safe_type :> new_type) @@ patterns]

\* add_pattern recording every observation as a success.
add_pattern_always_success(store, pattern_type, signature, example, suggested_fix, verify_cmd, outcome, meta) ==
    _add_pattern_internal(store, pattern_type, Or(signature, pattern_type), example,
                          suggested_fix, verify_cmd, <<"s","u","c","c","e","s","s">>, meta)

\* add_pattern, called with a text signature (the structured call style):
\* load_learning() returns the persisted store as it is, every bucket of
\* which _add_pattern_internal wrote in the normalized form; the observation
\* is added and the store saved.
add_pattern(store, pattern_type, signature, example, suggested_fix, verify_cmd, outcome, meta) ==
    _add_pattern_internal(store, pattern_type, Or(signature, pattern_type), example,
                          suggested_fix, verify_cmd, outcome, meta)

\* ------------------------------------------------------------------ metrics
\* mean_time_to_verify_fix is None until the first verification.
NoMean == -1

\* _metrics_defaults(): the counters the fix queue and the task manager
\* touch.  Durations and means are in units of 0.0001 s, the precision
\* round(x, 4) keeps; success_rate is in units of 0.0001 too.
_metrics_defaults ==
    [incidents_total |-> 0, incidents_open |-> 0, fixes_completed |-> 0,
     fixes_failed |-> 0, mean_time_to_verify_fix |-> NoMean,
     tasks_completed |-> 0, tasks_successful |-> 0, tasks_failed |-> 0,
     task_progress_events |-> 0, success_rate |-> 0,
     mean_time_to_close_task |-> NoMean, runs |-> 0, rollback_count |-> 0]

\* round(n / d, 4) on the scaled integers: to nearest, ties to even.
RoundDiv(n, d) ==
    LET q == n \div d
        r == n % d
    IN  IF 2 * r > d THEN q + 1
        ELSE IF 2 * r < d THEN q
        ELSE IF q % 2 = 0 THEN q ELSE q + 1

Max(a, b) == IF a >= b THEN a ELSE b

\* A verification that takes the incident off the open count whatever the
\* outcome.
record_fix_verification_closing_failures(m, success, duration_seconds) ==
    LET fixes_completed == m.fixes_completed + (IF success THEN 1 ELSE 0)
        fixes_failed == m.fixes_failed + (IF success THEN 0 ELSE 1)
        total == fixes_completed + fixes_failed
    IN  [m EXCEPT
            !.fixes_completed = fixes_completed,
            !.fixes_failed = fixes_failed,
            !.mean_time_to_verify_fix =
                IF @ = NoMean \/ total <= 1 THEN duration_seconds
                ELSE RoundDiv(@ * (total - 1) + duration_seconds, total),
            !.incidents_open = Max(0, @ - 1)]

\* record_fix_verification(success, duration_seconds)
record_fix_verification(m, success, duration_seconds) ==
    LET fixes_completed == m.fixes_completed + (IF success THEN 1 ELSE 0)
        fixes_failed == m.fixes_failed + (IF success THEN 0 ELSE 1)
        current_mean == m.mean_time_to_verify_fix
        total == fixes_completed + fixes_failed
    IN  [m EXCEPT
            !.fixes_completed = fixes_completed,
            !.fixes_failed = fixes_failed,
            !.mean_time_to_verify_fix =
                IF current_mean = NoMean \/ total <= 1 THEN duration_seconds
                ELSE RoundDiv(current_mean * (total - 1) + duration_seconds, total),
            !.incidents_open = IF success THEN Max(0, m.incidents_open - 1)
                               ELSE m.incidents_open]

\* ---------------------------------------------------------------- fix queue
Statuses == {"pending", "attempted", "completed", "failed"}

\* The text of a status, as it is formatted into f"fix_task_{status}".
StatusText(status) ==
    CASE status = "pending" -> <<"p","e","n","d","i","n","g">>
      [] status = "attempted" -> <<"a","t","t","e","m","p","t","e","d">>
      [] status = "completed" -> <<"c","o","m","p","l","e","t","e","d">>
      [] status = "failed" -> <<"f","a","i","l","e","d">>

\* `result or {}`: result is <<>> for None and <<d>> for a dict d.
ResultOrEmpty(result) ==
    IF Len(result) = 0 THEN EmptyDict
    ELSE IF DOMAIN result[1] = {} THEN EmptyDict
    ELSE result[1]

\* add_fix_task: the task record appended to the file.  result is <<>> while
\* the task has no "result" key.
add_fix_task(tasks, task_id, incident, suggested_fix, verify_cmd) ==
    Append(tasks,
        [id |-> task_id, incident |-> incident, suggested_fix |-> suggested_fix,
         verify_cmd |-> verify_cmd, status |-> "pending", attempts |-> 0,
         created_by |-> "self_heal", meta |-> EmptyDict, result |-> <<>>,
         history |-> <<[status |-> "pending", note |-> "task_created"]>>])

\* get_next_fix as it would be if it skipped only finished tasks: the first
\* task that is pending or attempted.
get_next_fix_unfinished(tasks) ==
    IF \E i \in 1..Len(tasks) : tasks[i].status \in {"pending", "attempted"}
    THEN CHOOSE i \in 1..Len(tasks) :
             /\ tasks[i].status \in {"pending", "attempted"}
             /\ \A j \in 1..(i - 1) : tasks[j].status \notin {"pending", "attempted"}
    ELSE 0

\* get_next_fix as it would be if it did not test the status: the first task.
get_next_fix_first(tasks) == IF Len(tasks) > 0 THEN 1 ELSE 0

\* get_next_fix as it would be if it served the newest pending task.
get_next_fix_newest(tasks) ==
    IF \E i \in 1..Len(tasks) : tasks[i].status = "pending"
    THEN CHOOSE i \in 1..Len(tasks) :
             /\ tasks[i].status = "pending"
             /\ \A j \in (i + 1)..Len(tasks) : tasks[j].status # "pending"
    ELSE 0

\* get_next_fix as it would be if failed tasks were served again: the first
\* task that is pending or failed.
get_next_fix_retrying_failed(tasks) ==
    IF \E i \in 1..Len(tasks) : tasks[i].status \in {"pending", "failed"}
    THEN CHOOSE i \in 1..Len(tasks) :
             /\ tasks[i].status \in {"pending", "failed"}
             /\ \A j \in 1..(i - 1) : tasks[j].status \notin {"pending", "failed"}
    ELSE 0

\* get_next_fix: the index of the first pending task in file order, 0 for None.
get_next_fix(tasks) ==
    IF \E i \in 1..Len(tasks) : tasks[i].status = "pending"
    THEN CHOOSE i \in 1..Len(tasks) :
             /\ tasks[i].status = "pending"
             /\ \A j \in 1..(i - 1) : tasks[j].status # "pending"
    ELSE 0

\* update_one_task as it would be if it counted every update as an attempt.
update_one_task_counts_all(task, status, result) ==
    [task EXCEPT
        !.status = status,
        !.attempts = @ + 1,
        !.result = IF Len(result) > 0 THEN result ELSE @,
        !.history = Append(@, [status |-> status, result |-> ResultOrEmpty(result)])]

\* The body of update_task_status's loop for a task whose id matches.
update_one_task(task, status, result) ==
    [task EXCEPT
        !.status = status,
        !.attempts = IF status = "attempted" THEN @ + 1 ELSE @,
        !.result = IF Len(result) > 0 THEN result ELSE @,
        !.history = Append(@, [status |-> status, result |-> ResultOrEmpty(result)])]

\* update_tasks as it would be if only the updated task were written back.
update_tasks_matching_only(tasks, task_id, status, result) ==
    LET Matches(task) == task.id = task_id
        kept == SelectSeq(tasks, Matches)
    IN  [i \in 1..Len(kept) |-> update_one_task(kept[i], status, result)]

\* update_task_status's loop over the loaded tasks, and the list it writes back.
update_tasks(tasks, task_id, status, result) ==
    [i \in 1..Len(tasks) |->
        IF tasks[i].id # task_id THEN tasks[i]
        ELSE update_one_task(tasks[i], status, result)]

\* pattern_signature as it would be if the incident class came first.
pattern_signature_by_class(incident) ==
    Or(incident.incident_class,
       Or(incident.failed_check, Or(incident.signature, <<"f","i","x","_","t","a","s","k">>)))

\* The signature _record_pattern_for_status files the observation under.
pattern_signature(incident) ==
    Or(incident.signature,
       Or(incident.failed_check, Or(incident.incident_class, <<"f","i","x","_","t","a","s","k">>)))

\* _record_pattern_for_status: the pattern store after the call.
_record_pattern_for_status(store, tasks, task_id, status, result) ==
    IF status \notin {"completed", "failed"} THEN store
    ELSE IF ~\E i \in 1..Len(tasks) : tasks[i].id = task_id THEN store
    ELSE LET task == tasks[CHOOSE i \in 1..Len(tasks) :
                              /\ tasks[i].id = task_id
                              /\ \A j \in 1..(i - 1) : tasks[j].id # task_id]
         IN  add_pattern(store,
                 <<"f","i","x","_","t","a","s","k","_">> \o StatusText(status),
                 pattern_signature(task.incident),
                 <<[task_id |-> task_id, incident |-> task.incident,
                    result |-> ResultOrEmpty(result)]>>,
                 task.suggested_fix,
                 task.verify_cmd,
                 IF status = "completed" THEN <<"s","u","c","c","e","s","s">> ELSE <<"f","a","i","l","u","r","e">>,
                 [status |-> status])

\* update_task_status: what it returns, the queue file and the pattern store
\* after the call.
update_task_status(tasks, store, task_id, status, result) ==
    IF ~\E i \in 1..Len(tasks) : tasks[i].id = task_id
    THEN [updated |-> FALSE, tasks |-> tasks, store |-> store]
    ELSE LET written == update_tasks(tasks, task_id, status, result)
         IN  [updated |-> TRUE, tasks |-> written,
              store |-> _record_pattern_for_status(store, written, task_id, status, result)]

\* The timeout process_one_task gives subprocess.run, in units of 0.0001 s.
VerifyTimeout == 3000000

\* How long a verify command may run (0.0001 s): one that finishes, one that
\* outlasts the timeout.
Runtimes == {15000, VerifyTimeout + 1}

\* The exit codes of a verify command that finishes.
ExitCodes == {0, 1, 2}

\* What running a verify command can do: the executable cannot be started;
\* or it runs for some time and, unless the timeout ends it, exits.
VerifyRuns ==
    {[spawns |-> FALSE, runtime |-> 0, returncode |-> 0]}
    \cup {[spawns |-> TRUE, runtime |-> VerifyTimeout + 1, returncode |-> 0]}
    \cup {[spawns |-> TRUE, runtime |-> t, returncode |-> c] :
             t \in {u \in Runtimes : u <= VerifyTimeout}, c \in ExitCodes}

\* The executor labels the callers pass (nexus_cli: manual, agent_runtime: runtime).
Executors == {"manual"}

\* pathlib.Path.cwd() of the process that adds a task.
ProcessCwd == <<"/","h","o","m","e","/","u">>

\* task.get("verify_cmd") or ["echo", "missing_verify_cmd"]
verify_cmd_of(task) ==
    IF Len(task.verify_cmd) > 0 THEN task.verify_cmd
    ELSE <<<<"e","c","h","o">>, <<"m","i","s","s","i","n","g","_","v","e","r","i","f","y","_","c","m","d">>>>

\* The exception subprocess.run raises, "" when it returns a CompletedProcess:
\* the executable cannot be started, or the command outlasts the timeout.
run_raises(spawns, runtime) ==
    IF ~spawns THEN "FileNotFoundError"
    ELSE IF runtime > VerifyTimeout THEN "TimeoutExpired"
    ELSE ""

\* Whether the verify command outlasted the timeout of subprocess.run.
timed_out(run) == run.spawns /\ run.runtime > VerifyTimeout

\* final_status as it would be if exit code 1 counted as a success too.
final_status_lenient(returncode) == IF returncode <= 1 THEN "completed" ELSE "failed"

\* final_status = "completed" if success else "failed"
final_status(returncode) == IF returncode = 0 THEN "completed" ELSE "failed"

\* The result dict process_one_task stores with the final status.
final_result(executor, verify_cmd, returncode, duration) ==
    [executor |-> executor, verify_cmd |-> verify_cmd, returncode |-> returncode,
     duration_sec |-> duration]

\* ----------------------------------------------------- calls, one at a time
\* add_fix_from_incident(incident): the plan is derived and the task appended.
AddFixTask(incident) ==
    /\ nCalls < MaxCalls
    /\ nCalls' = nCalls + 1
    /\ LET plan == _incident_to_fix_plan(incident, ProcessCwd)
       IN  /\ queue' = add_fix_task(queue, nextId, incident, plan.suggested_fix,
                                    plan.verify_cmd)
           /\ added' = Append(added, [id |-> nextId, incident |-> incident,
                                      suggested_fix |-> plan.suggested_fix,
                                      verify_cmd |-> plan.verify_cmd])
    /\ nextId' = nextId + 1
    /\ ret' = [op |-> "add", task_id |-> nextId]
    /\ UNCHANGED <<learning, metrics, pc, loc, attemptedBy, overlap,
                   planIn, planOut, tmVars, psVars, smVars, qgVars, hkVars>>

\* update_task_status(task_id, status, result) called on its own.
UpdateStatus(task_id, status, result) ==
    LET r == update_task_status(queue, learning, task_id, status, result)
    IN  /\ r.updated => nCalls < MaxCalls
        /\ nCalls' = IF r.updated THEN nCalls + 1 ELSE nCalls
        /\ queue' = r.tasks
        /\ learning' = r.store
        /\ ret' = [op |-> "update", task_id |-> task_id, status |-> status,
                   updated |-> r.updated]
        /\ UNCHANGED <<metrics, nextId, added, pc, loc, attemptedBy, overlap,
                       planIn, planOut, tmVars, psVars, smVars, qgVars, hkVars>>

\* process_one_task(executor), run from start to end with no other call in
\* between; run is what the verify command does.  The variables of the hooks
\* are left to the caller.
ProcessOneTaskBody(executor, run) ==
    LET next == get_next_fix(queue)
        spawns == run.spawns
        runtime == run.runtime
        returncode == run.returncode
    IN  IF next = 0
        THEN /\ ret' = [op |-> "process", status |-> "no_pending_task"]
             /\ UNCHANGED <<queue, learning, metrics, nextId, nCalls, added, pc,
                            loc, attemptedBy, overlap, planIn, planOut, tmVars, psVars, smVars, qgVars>>
        ELSE LET task == queue[next]
                 task_id == task.id
                 verify_cmd == verify_cmd_of(task)
                 first == update_task_status(queue, learning, task_id, "attempted",
                              <<[executor |-> executor, verify_cmd |-> verify_cmd]>>)
                 raises == run_raises(spawns, runtime)
                 status == final_status(returncode)
                 second == update_task_status(first.tasks, first.store, task_id, status,
                               <<final_result(executor, verify_cmd, returncode, runtime)>>)
             IN  /\ nCalls < MaxCalls
                 /\ nCalls' = nCalls + 1
                 /\ IF raises # ""
                    THEN /\ queue' = first.tasks
                         /\ learning' = first.store
                         /\ metrics' = metrics
                         /\ ret' = [op |-> "process", raised |-> raises, task_id |-> task_id,
                                    timed_out |-> timed_out(run)]
                    ELSE /\ queue' = second.tasks
                         /\ learning' = second.store
                         /\ metrics' = record_fix_verification(metrics, returncode = 0,
                                                               runtime)
                         /\ ret' = [op |-> "process", status |-> status, task_id |-> task_id,
                                    verify_cmd |-> verify_cmd,
                                    returncode |-> returncode, duration_sec |-> runtime,
                                    timed_out |-> timed_out(run)]
                 /\ UNCHANGED <<nextId, added, pc, loc, attemptedBy, overlap,
                                planIn, planOut, tmVars, psVars, smVars, qgVars>>

\* process_one_task(executor) called on its own (nexus_cli fix process-one).
ProcessOneTask(executor, run) ==
    /\ ProcessOneTaskBody(executor, run)
    /\ UNCHANGED hkVars

\* ------------------------------------------------------------ task manager
\* The task manager also appends to session_history.jsonl (record_event);
\* nothing reads that file back and it is left out.

\* A timestamp that is None or missing.
NoTime == -1

\* The seconds that must have passed since the last gate failure before
\* record_quality_gate_pass closes the task.
CoolDown == 600

\* The most records recent_checks keeps.
RECENT_CHECKS_LIMIT == 10

\* The most notes a task keeps.
NOTES_LIMIT == 20

\* What _load_current_task returns for None; also current_task.json absent.
NoTask == <<>>

\* _load_current_task: None unless the file holds a task that is active.
_load_current_task(file) ==
    IF Len(file) = 0 THEN NoTask
    ELSE IF file[1].status # "active" THEN NoTask
    ELSE file

\* The task dict start_task builds.  recent_checks and
\* last_quality_gate_fail_at are set on first use; until then they are
\* the empty list and None.
NewTask(task_id, goal, at) ==
    [id |-> task_id, goal |-> goal, status |-> "active", started_at |-> at,
     progress_events |-> 0, notes |-> <<>>, recent_checks |-> <<>>,
     last_quality_gate_fail_at |-> NoTime]

\* start_task as it would be without the test for an active task.
start_task_unchecked(file, log, active, at, task_id, goal) ==
    LET task == NewTask(task_id, goal, at)
    IN  [raised |-> FALSE, existing |-> 0, task |-> <<task>>,
         file |-> <<task>>,
         log |-> Append(log, [event |-> "task_started", task |-> task]),
         active_task |-> task_id]

\* start_task(goal): raises when a task is active, else writes the new task,
\* logs task_started and sets the active task of the state vector.
start_task(file, log, active, at, task_id, goal) ==
    LET current == _load_current_task(file)
    IN  IF current # NoTask
        THEN [raised |-> TRUE, existing |-> current[1].id, task |-> NoTask,
              file |-> file, log |-> log, active_task |-> active]
        ELSE LET task == NewTask(task_id, goal, at)
             IN  [raised |-> FALSE, existing |-> 0, task |-> <<task>>,
                  file |-> <<task>>,
                  log |-> Append(log, [event |-> "task_started", task |-> task]),
                  active_task |-> task_id]

\* record_task_close counting every close as a success.
record_task_close_always_successful(m, success, duration_seconds) ==
    [m EXCEPT !.tasks_completed = @ + 1,
              !.tasks_successful = @ + 1,
              !.mean_time_to_close_task = duration_seconds,
              !.success_rate = 10000]

\* record_task_close leaving a failed close out of tasks_completed.
record_task_close_uncounted_failure(m, success, duration_seconds) ==
    IF success
    THEN [m EXCEPT !.tasks_completed = @ + 1, !.tasks_successful = @ + 1,
                   !.mean_time_to_close_task = duration_seconds]
    ELSE [m EXCEPT !.tasks_failed = @ + 1,
                   !.mean_time_to_close_task = duration_seconds]

\* record_task_close(success, duration_seconds), with the success_rate that
\* save_metrics recomputes.
record_task_close(m, success, duration_seconds) ==
    LET tasks_completed == m.tasks_completed + 1
        tasks_successful == m.tasks_successful + (IF success THEN 1 ELSE 0)
        tasks_failed == m.tasks_failed + (IF success THEN 0 ELSE 1)
        current_mean == m.mean_time_to_close_task
    IN  [m EXCEPT
            !.tasks_completed = tasks_completed,
            !.tasks_successful = tasks_successful,
            !.tasks_failed = tasks_failed,
            !.mean_time_to_close_task =
                IF current_mean = NoMean \/ tasks_completed <= 1 THEN duration_seconds
                ELSE RoundDiv(current_mean * (tasks_completed - 1) + duration_seconds,
                              tasks_completed),
            !.success_rate = RoundDiv(tasks_successful * 10000, tasks_completed)]

\* close_task updating the metrics before it looks for the active task.
close_task_counts_first(file, log, m, active, at, success, note) ==
    LET loaded == _load_current_task(file)
        counted == record_task_close(m, success, 0)
    IN  IF loaded = NoTask
        THEN [raised |-> TRUE, closed |-> NoTask, file |-> file, log |-> log,
              metrics |-> counted, active_task |-> active]
        ELSE LET task == loaded[1]
                 closed == [task EXCEPT !.status = IF success THEN "completed"
                                                  ELSE "failed"]
                           @@ [ended_at |-> at, duration_sec |-> 0,
                               close_note |-> note]
             IN  [raised |-> FALSE, closed |-> <<closed>>, file |-> NoTask,
                  log |-> Append(log, [event |-> "task_closed", task |-> closed]),
                  metrics |-> counted, active_task |-> 0]

\* close_task(success, note): raises when no task is active, else logs
\* task_closed with the closed task, updates the metrics, removes
\* current_task.json and clears the active task of the state vector.
close_task(file, log, m, active, at, success, note) ==
    LET loaded == _load_current_task(file)
    IN  IF loaded = NoTask
        THEN [raised |-> TRUE, closed |-> NoTask, file |-> file, log |-> log,
              metrics |-> m, active_task |-> active]
        ELSE LET task == loaded[1]
                 duration_sec == (at - task.started_at) * 10000
                 closed == [task EXCEPT !.status = IF success THEN "completed"
                                                  ELSE "failed"]
                           @@ [ended_at |-> at, duration_sec |-> duration_sec,
                               close_note |-> note]
             IN  [raised |-> FALSE, closed |-> <<closed>>, file |-> NoTask,
                  log |-> Append(log, [event |-> "task_closed", task |-> closed]),
                  metrics |-> record_task_close(m, success, duration_sec),
                  active_task |-> 0]

\* The progress counted twice for one pass.
count_progress_twice(m) == [m EXCEPT !.task_progress_events = @ + 2]

\* The metrics after record_quality_gate_pass has counted the progress.
count_progress(m) == [m EXCEPT !.task_progress_events = @ + 1]

\* A buffer cut to its oldest entries.
KeepFirst(buffer, limit) ==
    IF Len(buffer) > limit THEN SubSeq(buffer, 1, limit) ELSE buffer

\* del buffer[:-limit] when the buffer is over the limit.
KeepLast(buffer, limit) ==
    IF Len(buffer) > limit
    THEN SubSeq(buffer, Len(buffer) - limit + 1, Len(buffer))
    ELSE buffer

\* The auto-close rule without its cool-down after a gate failure.
auto_close_due_ignoring_failures(env, task, at) ==
    /\ env.auto_close = "1"
    /\ task.progress_events >= env.min_passes

\* Whether the auto-close rule of record_quality_gate_pass closes the task:
\* the rule is switched on, the task has the passes, and the last gate
\* failure, if any, is more than the cool-down ago.
auto_close_due(env, task, at) ==
    /\ env.auto_close = "1"
    /\ task.progress_events >= env.min_passes
    /\ IF task.last_quality_gate_fail_at # NoTime
       THEN at - task.last_quality_gate_fail_at > CoolDown
       ELSE TRUE

\* record_quality_gate_pass(event, root, checks): None when no task is
\* active; else the progress is counted in the task and in the metrics,
\* task_progress is logged, and the task is closed when the auto-close rule
\* says so.  last_quality_gate_pass_at is written and never read: left out.
record_quality_gate_pass(file, log, m, active, at, env, checks) ==
    LET loaded == _load_current_task(file)
    IN  IF loaded = NoTask
        THEN [result |-> "none", task |-> NoTask, file |-> file, log |-> log,
              metrics |-> m, active_task |-> active]
        ELSE LET task == [loaded[1] EXCEPT
                             !.progress_events = @ + 1,
                             !.recent_checks = KeepLast(Append(@, checks),
                                                        RECENT_CHECKS_LIMIT)]
                 logged == Append(log, [event |-> "task_progress", task_id |-> task.id])
                 counted == count_progress(m)
                 closing == close_task(<<task>>, logged, counted, active, at, TRUE,
                                <<"a","u","t","o","-","c","l","o","s","e","d"," ","a","f","t","e","r"," ","r","e","p","e","a","t","e","d"," ","q","u","a","l","i","t","y","_","g","a","t","e"," ","p","a","s","s","e","s">>)
             IN  IF auto_close_due(env, task, at)
                 THEN [result |-> "closed", task |-> closing.closed,
                       file |-> closing.file, log |-> closing.log,
                       metrics |-> closing.metrics,
                       active_task |-> closing.active_task]
                 ELSE [result |-> "task", task |-> <<task>>, file |-> <<task>>,
                       log |-> logged, metrics |-> counted, active_task |-> active]

\* record_quality_gate_fail(signature): None when no task is active; else
\* the failure is timestamped and noted in the task.
record_quality_gate_fail(file, at, signature) ==
    LET loaded == _load_current_task(file)
    IN  IF loaded = NoTask
        THEN [result |-> "none", task |-> NoTask, file |-> file]
        ELSE LET task == [loaded[1] EXCEPT
                             !.last_quality_gate_fail_at = at,
                             !.notes = KeepLast(Append(@, <<"q","u","a","l","i","t","y","_","g","a","t","e","_","f","a","i","l",":">> \o signature),
                                                NOTES_LIMIT)]
             IN  [result |-> "task", task |-> <<task>>, file |-> <<task>>]

\* The environment with no NEXUS_TASK_AUTO_CLOSE* variable set: the defaults
\* of os.environ.get.
DefaultPolicy == [auto_close |-> "0", min_passes |-> 3]

\* The results a direct update_task_status call passes: None or a dict.
DirectResults == {<<>>}

\* Two processes, each running process_one_task once: the CLI (executor
\* manual) and the agent runtime (executor runtime).
Procs == {"manual", "runtime"}

\* The locals of a process_one_task invocation that has not picked a task.
NoLocals ==
    [task_id |-> 0, verify_cmd |-> <<>>, tasks |-> <<>>, updated |-> FALSE,
     returncode |-> 0, duration |-> 0, ret |-> [op |-> "none"]]

NoPlan == [suggested_fix |-> Empty, verify_cmd |-> <<>>]

Init ==
    /\ queue = <<>>
    /\ learning = _init_learning
    /\ metrics = _metrics_defaults
    /\ nextId = 1
    /\ nCalls = 0
    /\ added = <<>>
    /\ ret = [op |-> "none"]
    /\ pc = [p \in Procs |-> "idle"]
    /\ loc = [p \in Procs |-> NoLocals]
    /\ attemptedBy = [p \in Procs |-> {}]
    /\ overlap = FALSE
    /\ planIn = GatePytestIncident
    /\ planOut = NoPlan
    /\ current_task = NoTask
    /\ tasks_log = <<>>
    /\ active_task = 0
    /\ now = 0
    /\ policy = DefaultPolicy
    /\ nextTaskId = 1
    /\ nTaskCalls = 0
    /\ tret = [op |-> "none"]
    /\ pcall = [op |-> "none"]
    /\ nPatCalls = 0
    /\ FileIdle
    /\ GateIdle
    /\ HooksIdle

\* ------------------------------------------- process_one_task, interleaved
\* The steps of one process_one_task invocation at the grain of its file
\* accesses: the queue file is read whole and written whole, with nothing
\* that locks it in between.

\* Another process is inside an invocation.
OtherRunning(p) == \E q \in Procs \ {p} : pc[q] \notin {"idle", "done"}

\* task = self.get_next_fix(): reads the queue file.
Pick(p) ==
    /\ pc[p] = "idle"
    /\ overlap' = (overlap \/ OtherRunning(p))
    /\ LET next == get_next_fix(queue)
       IN  IF next = 0
           THEN /\ pc' = [pc EXCEPT ![p] = "done"]
                /\ loc' = [loc EXCEPT ![p].ret = [op |-> "process",
                                                   status |-> "no_pending_task"]]
           ELSE /\ pc' = [pc EXCEPT ![p] = "load_attempted"]
                /\ loc' = [loc EXCEPT ![p].task_id = queue[next].id,
                                       ![p].verify_cmd = verify_cmd_of(queue[next])]
    /\ UNCHANGED <<queue, learning, metrics, nextId, nCalls, added, ret, attemptedBy,
                   planIn, planOut, tmVars, psVars, smVars, qgVars, hkVars>>

\* tasks = self._load_tasks() at the start of an update_task_status call.
Load(p) ==
    /\ pc[p] \in {"load_attempted", "load_final"}
    /\ loc' = [loc EXCEPT ![p].tasks = queue]
    /\ pc' = [pc EXCEPT ![p] = IF pc[p] = "load_attempted" THEN "write_attempted"
                                ELSE "write_final"]
    /\ UNCHANGED <<queue, learning, metrics, nextId, nCalls, added, ret, attemptedBy,
                   overlap, planIn, planOut, tmVars, psVars, smVars, qgVars, hkVars>>

\* update_task_status(task_id, "attempted", ...): the loaded list is changed
\* and written back (nothing is written when the id is not in it).
WriteAttempted(p) ==
    /\ pc[p] = "write_attempted"
    /\ LET r == update_task_status(loc[p].tasks, learning, loc[p].task_id, "attempted",
                    <<[executor |-> p, verify_cmd |-> loc[p].verify_cmd]>>)
       IN  /\ queue' = IF r.updated THEN r.tasks ELSE queue
           /\ attemptedBy' = IF r.updated
                              THEN [attemptedBy EXCEPT ![p] = @ \cup {loc[p].task_id}]
                              ELSE attemptedBy
    /\ pc' = [pc EXCEPT ![p] = "run"]
    /\ UNCHANGED <<learning, metrics, nextId, nCalls, added, ret, loc, overlap,
                   planIn, planOut, tmVars, psVars, smVars, qgVars, hkVars>>

\* subprocess.run(verify_cmd, timeout=300): raises out of process_one_task,
\* or returns the exit code.
Run(p, run) ==
    /\ pc[p] = "run"
    /\ IF run_raises(run.spawns, run.runtime) # ""
       THEN /\ pc' = [pc EXCEPT ![p] = "done"]
            /\ loc' = [loc EXCEPT ![p].ret =
                           [op |-> "process",
                            raised |-> run_raises(run.spawns, run.runtime),
                            task_id |-> loc[p].task_id, timed_out |-> timed_out(run)]]
       ELSE /\ pc' = [pc EXCEPT ![p] = "load_final"]
            /\ loc' = [loc EXCEPT ![p].returncode = run.returncode,
                                   ![p].duration = run.runtime]
    /\ UNCHANGED <<queue, learning, metrics, nextId, nCalls, added, ret, attemptedBy,
                   overlap, planIn, planOut, tmVars, psVars, smVars, qgVars, hkVars>>

\* update_task_status(task_id, final_status, result) up to self._write_tasks.
WriteFinal(p) ==
    /\ pc[p] = "write_final"
    /\ LET r == update_task_status(loc[p].tasks, learning, loc[p].task_id,
                    final_status(loc[p].returncode),
                    <<final_result(p, loc[p].verify_cmd, loc[p].returncode,
                                   loc[p].duration)>>)
       IN  /\ queue' = IF r.updated THEN r.tasks ELSE queue
           /\ loc' = [loc EXCEPT ![p].updated = r.updated]
    /\ pc' = [pc EXCEPT ![p] = "record_pattern"]
    /\ UNCHANGED <<learning, metrics, nextId, nCalls, added, ret, attemptedBy, overlap,
                   planIn, planOut, tmVars, psVars, smVars, qgVars, hkVars>>

\* self._record_pattern_for_status(...) at the end of update_task_status:
\* reads the queue file again; skipped when the update found no task.
RecordPattern(p) ==
    /\ pc[p] = "record_pattern"
    /\ learning' = IF loc[p].updated
                   THEN _record_pattern_for_status(learning, queue, loc[p].task_id,
                            final_status(loc[p].returncode),
                            <<final_result(p, loc[p].verify_cmd, loc[p].returncode,
                                           loc[p].duration)>>)
                   ELSE learning
    /\ pc' = [pc EXCEPT ![p] = "record_metrics"]
    /\ UNCHANGED <<queue, metrics, nextId, nCalls, added, ret, loc, attemptedBy,
                   overlap, planIn, planOut, tmVars, psVars, smVars, qgVars, hkVars>>

\* sm.record_fix_verification(...) and the return of the summary.
RecordMetrics(p) ==
    /\ pc[p] = "record_metrics"
    /\ metrics' = record_fix_verification(metrics, loc[p].returncode = 0,
                                          loc[p].duration)
    /\ loc' = [loc EXCEPT ![p].ret =
                   [op |-> "process", status |-> final_status(loc[p].returncode),
                    task_id |-> loc[p].task_id, verify_cmd |-> loc[p].verify_cmd,
                    returncode |-> loc[p].returncode,
                    duration_sec |-> loc[p].duration, timed_out |-> FALSE]]
    /\ pc' = [pc EXCEPT ![p] = "done"]
    /\ UNCHANGED <<queue, learning, nextId, nCalls, added, ret, attemptedBy, overlap,
                   planIn, planOut, tmVars, psVars, smVars, qgVars, hkVars>>

\* The incidents tasks are added for while invocations interleave.
ConcIncidents == {GatePytestIncident}

\* A task is added while invocations are under way.
AddFixTaskConc(incident) ==
    /\ nextId <= MaxConcTasks
    /\ AddFixTask(incident)

NextConc ==
    \/ \E incident \in ConcIncidents : AddFixTaskConc(incident)
    \/ \E p \in Procs : Pick(p)
    \/ \E p \in Procs : Load(p)
    \/ \E p \in Procs : WriteAttempted(p)
    \/ \E p \in Procs, run \in VerifyRuns : Run(p, run)
    \/ \E p \in Procs : WriteFinal(p)
    \/ \E p \in Procs : RecordPattern(p)
    \/ \E p \in Procs : RecordMetrics(p)

\* Two process_one_task invocations, interleaved in every way, over a queue
\* that tasks are added to.
SpecConc == Init /\ [][NextConc]_vars

Next ==
    \/ \E incident \in Incidents : AddFixTask(incident)
    \/ \E task_id \in 1..nextId, status \in Statuses, result \in DirectResults :
          UpdateStatus(task_id, status, result)
    \/ \E executor \in Executors, run \in VerifyRuns : ProcessOneTask(executor, run)

Spec == Init /\ [][Next]_vars

\* ------------------------------------------------- the fix plan on its own
\* Error text, signature, failed_check and incident_class as the producers
\* set them together.  The self-heal hook classifies the tool's error text
\* and derives the signature from the class (and the module an import error
\* names); the quality gate names the failed check twice and takes the
\* check's output, or a fixed text when it has none, as the error.
PlanCases ==
    {[error |-> <<"b","o","o","m">>, signature |-> <<"i","n","c","i","d","e","n","t",":","t","o","o","l","_","f","a","i","l","u","r","e">>,
      failed_check |-> Empty, incident_class |-> <<"t","o","o","l","_","f","a","i","l","u","r","e">>],
     [error |-> <<"A","s","s","e","r","t","i","o","n","E","r","r","o","r">>, signature |-> <<"i","n","c","i","d","e","n","t",":","t","o","o","l","_","f","a","i","l","u","r","e">>,
      failed_check |-> Empty, incident_class |-> <<"t","o","o","l","_","f","a","i","l","u","r","e">>],
     [error |-> <<"t","i","m","e","o","u","t">>, signature |-> <<"i","n","c","i","d","e","n","t",":","t","i","m","e","o","u","t">>,
      failed_check |-> Empty, incident_class |-> <<"t","i","m","e","o","u","t">>],
     [error |-> <<"M","o","d","u","l","e","N","o","t","F","o","u","n","d","E","r","r","o","r",":"," ","N","o"," ","m","o","d","u","l","e"," ","n","a","m","e","d"," ","'","f","o","o","'">>,
      signature |-> <<"i","n","c","i","d","e","n","t",":","i","m","p","o","r","t",":","f","o","o">>,
      failed_check |-> Empty, incident_class |-> <<"i","m","p","o","r","t","_","e","r","r","o","r">>],
     [error |-> <<"S","y","n","t","a","x","E","r","r","o","r",":"," ","b","a","d">>, signature |-> <<"i","n","c","i","d","e","n","t",":","s","y","n","t","a","x","_","e","r","r","o","r">>,
      failed_check |-> Empty, incident_class |-> <<"s","y","n","t","a","x","_","e","r","r","o","r">>],
     [error |-> <<"P","e","r","m","i","s","s","i","o","n"," ","d","e","n","i","e","d">>, signature |-> <<"i","n","c","i","d","e","n","t",":","p","e","r","m","i","s","s","i","o","n","_","d","e","n","i","e","d">>,
      failed_check |-> Empty, incident_class |-> <<"p","e","r","m","i","s","s","i","o","n","_","d","e","n","i","e","d">>],
     [error |-> <<"N","o"," ","s","u","c","h"," ","f","i","l","e">>, signature |-> <<"i","n","c","i","d","e","n","t",":","f","i","l","e","_","n","o","t","_","f","o","u","n","d">>,
      failed_check |-> Empty, incident_class |-> <<"f","i","l","e","_","n","o","t","_","f","o","u","n","d">>],
     [error |-> <<"s","h",":"," ","x",":"," ","n","o","t"," ","f","o","u","n","d">>, signature |-> <<"i","n","c","i","d","e","n","t",":","f","i","l","e","_","n","o","t","_","f","o","u","n","d">>,
      failed_check |-> Empty, incident_class |-> <<"f","i","l","e","_","n","o","t","_","f","o","u","n","d">>],
     [error |-> <<"F","4","0","1"," ","u","n","u","s","e","d">>, signature |-> <<"r","u","f","f",":","F","4","0","1">>,
      failed_check |-> <<"r","u","f","f">>, incident_class |-> <<"r","u","f","f">>],
     [error |-> <<"1"," ","f","a","i","l","e","d">>, signature |-> <<"p","y","t","e","s","t",":","f","a","i","l">>,
      failed_check |-> <<"p","y","t","e","s","t">>, incident_class |-> <<"p","y","t","e","s","t">>],
     [error |-> <<"q","u","a","l","i","t","y"," ","g","a","t","e"," ","f","a","i","l","u","r","e">>, signature |-> <<"d","i","f","f",":","l","i","m","i","t","_","e","x","c","e","e","d","e","d",":","2","5","0">>,
      failed_check |-> <<"d","i","f","f","_","l","i","m","i","t">>, incident_class |-> <<"d","i","f","f","_","l","i","m","i","t">>]}

\* The incidents plans are computed for.  Both producers set cwd; the file
\* of the tool event, under either key, and the file_path and module_name
\* fields may be there or not.
PlanIncidents ==
    {Incident(case.error, case.signature, case.failed_check, case.incident_class,
              <<"/","w">>, tool_file_path, tool_path, file_path, module_name) :
        case \in PlanCases, tool_file_path \in {Empty, <<"a",".","p","y">>},
        tool_path \in {Empty, <<"b",".","p","y">>}, file_path \in {Empty, <<"c",".","p","y">>},
        module_name \in {Empty, <<"f","o","o">>}}

\* pathlib.Path.cwd() of the processes that derive a plan.
ProcessCwds == {ProcessCwd, <<"/","s","r","v">>}

InitPlan ==
    /\ queue = <<>>
    /\ learning = _init_learning
    /\ metrics = _metrics_defaults
    /\ nextId = 1
    /\ nCalls = 0
    /\ added = <<>>
    /\ ret = [op |-> "none"]
    /\ pc = [p \in Procs |-> "idle"]
    /\ loc = [p \in Procs |-> NoLocals]
    /\ attemptedBy = [p \in Procs |-> {}]
    /\ overlap = FALSE
    /\ planIn \in PlanIncidents
    /\ planOut = NoPlan
    /\ current_task = NoTask
    /\ tasks_log = <<>>
    /\ active_task = 0
    /\ now = 0
    /\ policy = DefaultPolicy
    /\ nextTaskId = 1
    /\ nTaskCalls = 0
    /\ tret = [op |-> "none"]
    /\ pcall = [op |-> "none"]
    /\ nPatCalls = 0
    /\ FileIdle
    /\ GateIdle
    /\ HooksIdle

\* plan = _incident_to_fix_plan(incident) in add_fix_from_incident.
ComputePlan ==
    /\ planOut = NoPlan
    /\ \E process_cwd \in ProcessCwds :
          planOut' = _incident_to_fix_plan(planIn, process_cwd)
    /\ UNCHANGED <<queue, learning, metrics, nextId, nCalls, added, ret, pc, loc,
                   attemptedBy, overlap, planIn, tmVars, psVars, smVars, qgVars, hkVars>>

NextPlan == ComputePlan

SpecPlan == InitPlan /\ [][NextPlan]_vars

\* -------------------------------------------------------------- properties
\* The number of entries of a task's history with the given status.
CountStatus(task, status) ==
    Cardinality({k \in 1..Len(task.history) : task.history[k].status = status})

IsPrefix(a, b) == Len(a) <= Len(b) /\ SubSeq(b, 1, Len(a)) = a

\* The status changes of the lifecycle pending -> attempted -> {completed, failed}.
LifecycleStep(from, to) ==
    \/ from = "pending" /\ to = "attempted"
    \/ from = "attempted" /\ to \in {"completed", "failed"}

\* C1: under any sequence of add_fix_task, update_task_status and
\* process_one_task calls, a task's status only changes along
\* pending -> attempted -> {completed, failed}: every status a call records
\* in a task's history follows the one before it by a step of the lifecycle.
C1_StatusFollowsLifecycle ==
    [][\A i \in 1..Len(queue) :
          i <= Len(queue') =>
              \A k \in Len(queue[i].history)..(Len(queue'[i].history) - 1) :
                  LifecycleStep(queue'[i].history[k].status,
                                queue'[i].history[k + 1].status)]_vars

\* Every task's attempts is the number of attempted entries of its history,
\* which starts with the pending entry of its creation.
AttemptsCountHistory ==
    \A i \in 1..Len(queue) :
        /\ queue[i].attempts = CountStatus(queue[i], "attempted")
        /\ Len(queue[i].history) >= 1
        /\ queue[i].history[1].status = "pending"

\* A step keeps every task's history as a prefix of its new history, and a
\* task it adds is pending, with no attempt and the one entry of its creation.
HistoryAppendOnly ==
    /\ Len(queue') >= Len(queue)
    /\ \A i \in 1..Len(queue) : IsPrefix(queue[i].history, queue'[i].history)
    /\ \A i \in (Len(queue) + 1)..Len(queue') :
          /\ queue'[i].status = "pending"
          /\ queue'[i].attempts = 0
          /\ Len(queue'[i].history) = 1
          /\ queue'[i].history[1].status = "pending"

\* C2: in every reachable state each task's attempts equals the number of
\* attempted entries of its history; a task is created pending with attempts 0
\* and exactly one history entry (pending); history entries are only appended.
C2_AttemptsAndHistory == []AttemptsCountHistory /\ [][HistoryAppendOnly]_vars

\* A task that was attempted twice, with other entries in between.
C2_Witness ==
    \E i \in 1..Len(queue) :
        /\ queue[i].attempts = 2
        /\ Len(queue[i].history) >= 4

\* C3: when the verify command of the picked task outlasts the 300-second
\* timeout, process_one_task returns a summary with status failed instead of
\* raising, and the task is failed, not left attempted.
C3_TimeoutIsFailedResult ==
    (ret.op = "process" /\ "timed_out" \in DOMAIN ret /\ ret.timed_out) =>
        /\ "raised" \notin DOMAIN ret
        /\ "status" \in DOMAIN ret
        /\ ret.status = "failed"
        /\ \A i \in 1..Len(queue) :
              queue[i].id = ret.task_id => queue[i].status = "failed"

\* C4: exactly one task is attempted per process_one_task invocation and no
\* task is attempted by two invocations: under any interleaving of two
\* invocations, they move different tasks to attempted (or one of them
\* reports no pending task).
C4_DifferentTasksAnyInterleaving ==
    /\ \A p \in Procs : \A q \in Procs \ {p} : attemptedBy[p] \cap attemptedBy[q] = {}
    /\ \A p \in Procs :
          pc[p] = "done" =>
              \/ Cardinality(attemptedBy[p]) = 1
              \/ /\ attemptedBy[p] = {}
                 /\ loc[p].ret = [op |-> "process", status |-> "no_pending_task"]

\* C4, for invocations that run one after the other over a queue that is
\* otherwise only added to: each invocation that has ended moved exactly one
\* task to attempted or reported no pending task, and no task was moved to
\* attempted by both.
C4_DifferentTasksWhenSerialized ==
    ~overlap =>
        /\ \A p \in Procs : \A q \in Procs \ {p} : attemptedBy[p] \cap attemptedBy[q] = {}
        /\ \A p \in Procs :
              pc[p] = "done" =>
                  \/ Cardinality(attemptedBy[p]) = 1
                  \/ /\ attemptedBy[p] = {}
                     /\ loc[p].ret = [op |-> "process", status |-> "no_pending_task"]

\* Two invocations that did not overlap have ended, each having attempted a task.
C4_Witness ==
    /\ ~overlap
    /\ \A p \in Procs : pc[p] = "done" /\ Cardinality(attemptedBy[p]) = 1

\* C5: process_one_task called when no task of the queue is pending returns
\* the no-pending-task result and leaves the queue, the pattern store and the
\* metrics unchanged.
C5_NoPendingNoChange ==
    [][(ret'.op = "process" /\ \A i \in 1..Len(queue) : queue[i].status # "pending") =>
          /\ ret' = [op |-> "process", status |-> "no_pending_task"]
          /\ queue' = queue
          /\ learning' = learning
          /\ metrics' = metrics]_vars

\* process_one_task reported no pending task on a queue that holds tasks.
C5_Witness ==
    /\ ret = [op |-> "process", status |-> "no_pending_task"]
    /\ Len(queue) >= 2
    /\ \E i \in 1..Len(queue) : queue[i].status = "attempted"
    /\ DOMAIN learning.patterns # {}

\* C6: tasks are served first in, first out: once process_one_task has
\* attempted a task, no task added before it is pending.
C6_ServedInInsertionOrder ==
    (ret.op = "process" /\ "task_id" \in DOMAIN ret) =>
        \A a \in 1..Len(added) : \A b \in (a + 1)..Len(added) :
            added[b].id = ret.task_id =>
                \A i \in 1..Len(queue) :
                    queue[i].id = added[a].id => queue[i].status # "pending"

\* process_one_task attempted the second task added and ran its command to
\* the end, the first task having been attempted before.
C6_Witness ==
    /\ ret.op = "process" /\ "returncode" \in DOMAIN ret
    /\ Len(added) >= 2
    /\ added[2].id = ret.task_id
    /\ \E i \in 1..Len(queue) : queue[i].id = added[1].id /\ queue[i].attempts = 1

\* C7: the task process_one_task attempted ends completed if and only if its
\* verify command exits with code 0, and failed for every other exit code;
\* the summary's status is the status persisted for the task.
C7_CompletedIffExitZero ==
    (ret.op = "process" /\ "returncode" \in DOMAIN ret) =>
        /\ ret.status = "completed" <=> ret.returncode = 0
        /\ ret.returncode # 0 => ret.status = "failed"
        /\ \E i \in 1..Len(queue) : queue[i].id = ret.task_id
        /\ \A i \in 1..Len(queue) :
              queue[i].id = ret.task_id => queue[i].status = ret.status

\* A verify command exited non-zero and the task is failed.
C7_Witness ==
    /\ ret.op = "process" /\ "returncode" \in DOMAIN ret
    /\ ret.returncode # 0
    /\ \E i \in 1..Len(queue) : queue[i].id = ret.task_id /\ queue[i].status = "failed"

\* C8: tasks are never deleted: every task ever added is in the queue, in
\* insertion order, with its incident, suggested_fix and verify_cmd unchanged.
C8_TasksKept ==
    /\ Len(queue) = Len(added)
    /\ \A i \in 1..Len(added) :
          /\ queue[i].id = added[i].id
          /\ queue[i].incident = added[i].incident
          /\ queue[i].suggested_fix = added[i].suggested_fix
          /\ queue[i].verify_cmd = added[i].verify_cmd

\* Two tasks, the first updated at least twice, the second at least once.
C8_Witness ==
    /\ Len(queue) = 2
    /\ Len(queue[1].history) >= 3
    /\ Len(queue[2].history) >= 2

\* The number of transitions to the given status that the histories of the
\* tasks whose incident has the given signature record.
Transitions(status, signature) ==
    Cardinality({ik \in UNION {{<<i, k>> : k \in 1..Len(queue[i].history)} :
                                  i \in 1..Len(queue)} :
                    /\ queue[ik[1]].incident.signature = signature
                    /\ queue[ik[1]].history[ik[2]].status = status})

\* The counters the pattern store holds under a pattern type and a signature,
\* all zero when it holds none.
Observed(pattern_type, signature) ==
    IF pattern_type \in DOMAIN learning.patterns
    THEN IF signature \in DOMAIN learning.patterns[pattern_type].by_signature
         THEN LET bucket == learning.patterns[pattern_type].by_signature[signature]
              IN  [count |-> bucket.count, success |-> bucket.success_count,
                   failure |-> bucket.failure_count]
         ELSE [count |-> 0, success |-> 0, failure |-> 0]
    ELSE [count |-> 0, success |-> 0, failure |-> 0]

\* The store holds one observation per terminal transition and no other:
\* under fix_task_completed and the incident's signature as many successes
\* as transitions to completed, under fix_task_failed as many failures as
\* transitions to failed, and nothing under any other type or signature.
OneObservationPerTerminalTransition ==
    /\ DOMAIN learning.patterns \subseteq {<<"f","i","x","_","t","a","s","k","_","c","o","m","p","l","e","t","e","d">>, <<"f","i","x","_","t","a","s","k","_","f","a","i","l","e","d">>}
    /\ \A pattern_type \in DOMAIN learning.patterns :
          DOMAIN learning.patterns[pattern_type].by_signature
              \subseteq {queue[i].incident.signature : i \in 1..Len(queue)}
    /\ \A i \in 1..Len(queue) :
          LET signature == queue[i].incident.signature
              completed == Transitions("completed", signature)
              failed == Transitions("failed", signature)
          IN  /\ Observed(<<"f","i","x","_","t","a","s","k","_","c","o","m","p","l","e","t","e","d">>, signature)
                    = [count |-> completed, success |-> completed, failure |-> 0]
              /\ Observed(<<"f","i","x","_","t","a","s","k","_","f","a","i","l","e","d">>, signature)
                    = [count |-> failed, success |-> 0, failure |-> failed]

\* update_task_status returns true exactly for the id of a task of the queue,
\* and for any other id it leaves the queue and the pattern store unchanged.
UnknownIdChangesNothing ==
    (ret'.op = "update" /\ \A i \in 1..Len(queue) : queue[i].id # ret'.task_id) =>
        /\ ~ret'.updated
        /\ queue' = queue
        /\ learning' = learning

\* C9: update_task_status records exactly one pattern observation for each
\* transition to a terminal status, of type fix_task_completed (outcome
\* success) or fix_task_failed (outcome failure), keyed by the signature of
\* the task's incident; a transition to attempted and a call for an unknown
\* task id (which returns false and leaves the queue unchanged) record none.
C9_OneObservationPerTerminal ==
    []OneObservationPerTerminalTransition /\ [][UnknownIdChangesNothing]_vars

\* Tasks of one signature were completed twice, a task was attempted and
\* failed, and the last call was for an unknown id.
C9_Witness ==
    /\ ret.op = "update" /\ ~ret.updated
    /\ \E i \in 1..Len(queue) :
          /\ Transitions("completed", queue[i].incident.signature) = 2
          /\ queue[i].attempts >= 1
    /\ \E i \in 1..Len(queue) :
          Transitions("failed", queue[i].incident.signature) = 1

\* The module an incident names: its module_name field, else the name quoted
\* in the "No module named '...'" of its error text.
NamedModule(incident) ==
    IF incident.module_name # Empty THEN incident.module_name
    ELSE LET text == incident.error
             lead == <<"N","o"," ","m","o","d","u","l","e"," ","n","a","m","e","d"," ","'">>
             starts == {i \in 1..(Len(text) - Len(lead) + 1) :
                           SubSeq(text, i, i + Len(lead) - 1) = lead}
         IN  IF starts = {} THEN Empty
             ELSE LET from == (CHOOSE i \in starts : \A j \in starts : i <= j) + Len(lead)
                      ends == {j \in from..Len(text) : text[j] = "'"}
                  IN  IF ends = {} THEN Empty
                      ELSE SubSeq(text, from, (CHOOSE j \in ends : \A m \in ends : j <= m) - 1)

\* The verify command of the rule table: the command of the first rule the
\* incident's error text and classification match.
RuleTableCommand(incident, process_cwd) ==
    LET text == Lower(Join(<<incident.error, incident.signature,
                             incident.failed_check, incident.incident_class>>, <<" ">>))
        project == Or(incident.cwd, process_cwd)
        file == Or(incident.tool_input.file_path,
                   Or(incident.tool_input.path, incident.file_path))
        path == Or(file, project)
    IN  IF Contains(text, <<"r","u","f","f">>) \/ Contains(text, <<"f","4","0","1">>)
        THEN <<<<"r","u","f","f">>, <<"c","h","e","c","k">>, path>>
        ELSE IF Contains(text, <<"p","y","t","e","s","t">>) \/ Contains(text, <<"a","s","s","e","r","t">>) \/ Contains(text, <<"t","e","s","t">>)
        THEN <<<<"p","y","t","e","s","t">>, <<"-","q">>>>
        ELSE IF Contains(text, <<"s","y","n","t","a","x">>) \/ Contains(text, <<"c","o","m","p","i","l","e">>)
        THEN IF file # Empty THEN <<<<"p","y","t","h","o","n","3">>, <<"-","m">>, <<"p","y","_","c","o","m","p","i","l","e">>, file>>
             ELSE <<<<"p","y","t","h","o","n","3">>, <<"-","m">>, <<"c","o","m","p","i","l","e","a","l","l">>, <<"-","q">>, project>>
        ELSE IF Contains(text, <<"m","o","d","u","l","e">>) \/ Contains(text, <<"i","m","p","o","r","t">>)
        THEN <<<<"p","y","t","h","o","n","3">>, <<"-","c">>, <<"i","m","p","o","r","t"," ">> \o NamedModule(incident)>>
        ELSE IF Contains(text, <<"p","e","r","m","i","s","s","i","o","n">>)
        THEN <<<<"t","e","s","t">>, <<"-","r">>, path>>
        ELSE IF Contains(text, <<"n","o","t"," ","f","o","u","n","d">>) \/ Contains(text, <<"n","o"," ","s","u","c","h"," ","f","i","l","e">>)
        THEN <<<<"t","e","s","t">>, <<"-","e">>, path>>
        ELSE <<<<"p","y","t","h","o","n","3">>, <<"-","m">>, <<"c","o","m","p","i","l","e","a","l","l">>, <<"-","q">>, project>>

\* C10: the fix plan is derived from the ordered rule table, first match
\* wins: lint finding -> the linter; test-related -> the test runner;
\* syntax/compile -> a compile check of the file if known, else of the
\* project; missing module -> an import of that module; permission denied ->
\* a read-access check of the path; path not found -> an existence check of
\* the path; otherwise compile-all.  The plan is a function of the incident.
C10_PlanFollowsRuleTable ==
    planOut # NoPlan =>
        /\ \A process_cwd \in ProcessCwds :
              /\ planOut.verify_cmd = RuleTableCommand(planIn, process_cwd)
              /\ planOut = _incident_to_fix_plan(planIn, process_cwd)

\* The rules of the table before the missing-module rule: lint, test,
\* syntax/compile, tested on the incident's lower-cased text.
MatchesEarlierRule(incident) ==
    LET text == Lower(Join(<<incident.error, incident.signature,
                             incident.failed_check, incident.incident_class>>, <<" ">>))
    IN  \/ Contains(text, <<"r","u","f","f">>) \/ Contains(text, <<"f","4","0","1">>)
        \/ Contains(text, <<"p","y","t","e","s","t">>) \/ Contains(text, <<"a","s","s","e","r","t">>) \/ Contains(text, <<"t","e","s","t">>)
        \/ Contains(text, <<"s","y","n","t","a","x">>) \/ Contains(text, <<"c","o","m","p","i","l","e">>)

\* C11: an incident whose error text contains "No module named 'foo'" and
\* that matches no earlier rule yields a plan whose verify_cmd imports foo.
C11_MissingModuleIsImported ==
    (/\ planOut # NoPlan
     /\ Contains(planIn.error, <<"N","o"," ","m","o","d","u","l","e"," ","n","a","m","e","d"," ","'","f","o","o","'">>)
     /\ ~MatchesEarlierRule(planIn)) =>
        planOut.verify_cmd = <<<<"p","y","t","h","o","n","3">>, <<"-","c">>, <<"i","m","p","o","r","t"," ","f","o","o">>>>

\* ------------------------------------------------- the task manager's calls
\* Most task manager calls that change a store in one behaviour.
MaxTaskCalls == 5
\* Most steps of the clock in one behaviour.
MaxTicks == 3

\* The goals tasks are started with.
Goals == {<<"s","h","i","p">>}

\* The notes tasks are closed with (the CLI passes "" when none is given).
CloseNotes == {Empty}

\* The check summaries the quality gate reports with a pass.
GateChecks == {<<[name |-> "pytest", ok |-> TRUE]>>}

\* The signatures the quality gate reports with a failure.
GateSignatures == {<<"p","y","t","e","s","t",":","f","a","i","l">>}

\* The environments the hooks run in: nothing set, and auto-close switched
\* on with a minimum of two passes.
Policies == {DefaultPolicy, [auto_close |-> "1", min_passes |-> 2]}

\* The variables of the fix queue and of the plan, apart from the metrics.
fqVars == <<queue, learning, nextId, nCalls, added, ret, pc, loc, attemptedBy,
            overlap, planIn, planOut, psVars, smVars, qgVars, hkVars>>

InitTasks ==
    /\ queue = <<>>
    /\ learning = _init_learning
    /\ metrics = _metrics_defaults
    /\ nextId = 1
    /\ nCalls = 0
    /\ added = <<>>
    /\ ret = [op |-> "none"]
    /\ pc = [p \in Procs |-> "idle"]
    /\ loc = [p \in Procs |-> NoLocals]
    /\ attemptedBy = [p \in Procs |-> {}]
    /\ overlap = FALSE
    /\ planIn = GatePytestIncident
    /\ planOut = NoPlan
    /\ current_task = NoTask
    /\ tasks_log = <<>>
    /\ active_task = 0
    /\ now = 0
    /\ policy \in Policies
    /\ nextTaskId = 1
    /\ nTaskCalls = 0
    /\ tret = [op |-> "none"]
    /\ pcall = [op |-> "none"]
    /\ nPatCalls = 0
    /\ FileIdle
    /\ GateIdle
    /\ HooksIdle

\* nexus task start <goal>
StartTask(goal) ==
    LET r == start_task(current_task, tasks_log, active_task, now, nextTaskId, goal)
    IN  /\ ~r.raised => nTaskCalls < MaxTaskCalls
        /\ nTaskCalls' = IF r.raised THEN nTaskCalls ELSE nTaskCalls + 1
        /\ nextTaskId' = IF r.raised THEN nextTaskId ELSE nextTaskId + 1
        /\ current_task' = r.file
        /\ tasks_log' = r.log
        /\ active_task' = r.active_task
        /\ tret' = IF r.raised
                   THEN [op |-> "start", raised |-> "RuntimeError",
                         existing |-> r.existing]
                   ELSE [op |-> "start", task |-> r.task[1]]
        /\ UNCHANGED <<fqVars, metrics, now, policy>>

\* nexus task close --success | --fail
CloseTask(success, note) ==
    LET r == close_task(current_task, tasks_log, metrics, active_task, now, success, note)
    IN  /\ ~r.raised => nTaskCalls < MaxTaskCalls
        /\ nTaskCalls' = IF r.raised THEN nTaskCalls ELSE nTaskCalls + 1
        /\ current_task' = r.file
        /\ tasks_log' = r.log
        /\ metrics' = r.metrics
        /\ active_task' = r.active_task
        /\ tret' = IF r.raised
                   THEN [op |-> "close", success |-> success,
                         raised |-> "RuntimeError"]
                   ELSE [op |-> "close", success |-> success, task |-> r.closed[1]]
        /\ UNCHANGED <<fqVars, now, policy, nextTaskId>>

\* The quality gate reports a pass: record_quality_gate_pass(event, root, checks).
GatePass(checks) ==
    LET r == record_quality_gate_pass(current_task, tasks_log, metrics, active_task,
                                      now, policy, checks)
    IN  /\ r.result # "none" => nTaskCalls < MaxTaskCalls
        /\ nTaskCalls' = IF r.result = "none" THEN nTaskCalls ELSE nTaskCalls + 1
        /\ current_task' = r.file
        /\ tasks_log' = r.log
        /\ metrics' = r.metrics
        /\ active_task' = r.active_task
        /\ tret' = IF r.result = "none" THEN [op |-> "pass", result |-> "none"]
                   ELSE [op |-> "pass", result |-> r.result, task |-> r.task[1]]
        /\ UNCHANGED <<fqVars, now, policy, nextTaskId>>

\* The quality gate reports a failure: record_quality_gate_fail(signature).
GateFail(signature) ==
    LET r == record_quality_gate_fail(current_task, now, signature)
    IN  /\ r.result # "none" => nTaskCalls < MaxTaskCalls
        /\ nTaskCalls' = IF r.result = "none" THEN nTaskCalls ELSE nTaskCalls + 1
        /\ current_task' = r.file
        /\ tret' = IF r.result = "none" THEN [op |-> "fail", result |-> "none"]
                   ELSE [op |-> "fail", result |-> r.result, task |-> r.task[1]]
        /\ UNCHANGED <<fqVars, metrics, tasks_log, active_task, now, policy, nextTaskId>>

\* Five minutes pass between two calls.
Tick ==
    /\ now < MaxTicks * 300
    /\ now' = now + 300
    /\ tret' = [op |-> "tick"]
    /\ UNCHANGED <<fqVars, metrics, current_task, tasks_log, active_task, policy,
                   nextTaskId, nTaskCalls>>

NextTasks ==
    \/ \E goal \in Goals : StartTask(goal)
    \/ \E success \in BOOLEAN, note \in CloseNotes : CloseTask(success, note)
    \/ \E checks \in GateChecks : GatePass(checks)
    \/ \E signature \in GateSignatures : GateFail(signature)
    \/ Tick

\* The task manager under every sequence of its calls, one at a time.
SpecTasks == InitTasks /\ [][NextTasks]_vars

\* ---- Properties of the task manager (SpecTasks) ----

\* The ids of the tasks tasks.jsonl has seen started, and seen closed.
StartedIds ==
    {tasks_log[k].task.id :
        k \in {n \in DOMAIN tasks_log : tasks_log[n].event = "task_started"}}

ClosedIds ==
    {tasks_log[k].task.id :
        k \in {n \in DOMAIN tasks_log : tasks_log[n].event = "task_closed"}}

\* The tasks that were started and not closed.
ActiveIds == StartedIds \ ClosedIds

\* C12: in every state reachable by start_task, close_task,
\* record_quality_gate_pass (auto-close included) and
\* record_quality_gate_fail at most one task is active, and it is the task
\* held, with status active, in current_task.json (and named by the active
\* task pointer of the state vector).
C12_AtMostOneActiveTask ==
    /\ Cardinality(ActiveIds) <= 1
    /\ current_task = NoTask => (ActiveIds = {} /\ active_task = 0)
    /\ current_task # NoTask =>
        /\ current_task[1].status = "active"
        /\ ActiveIds = {current_task[1].id}
        /\ active_task = current_task[1].id

\* A second task is active, with progress, after the first one was closed.
C12_Witness ==
    /\ current_task # NoTask
    /\ ClosedIds # {}
    /\ current_task[1].progress_events >= 1
    /\ tret.op = "pass"

\* C13: start_task while a task is active raises an error that names the
\* active task's id, close_task with no active task raises; either way
\* current_task.json, tasks.jsonl, the metrics and the active task pointer
\* are as before the call.
C13_RejectedCallsChangeNothing ==
    [][/\ (tret'.op = "start" /\ current_task # NoTask) =>
            /\ tret' = [op |-> "start", raised |-> "RuntimeError",
                        existing |-> current_task[1].id]
            /\ UNCHANGED <<current_task, tasks_log, metrics, active_task>>
       /\ (tret'.op = "close" /\ current_task = NoTask) =>
            /\ tret' \in {[op |-> "close", success |-> b, raised |-> "RuntimeError"] :
                            b \in BOOLEAN}
            /\ UNCHANGED <<current_task, tasks_log, metrics, active_task>>]_vars

\* A start was rejected with the id of the second task, after the first
\* task's close had succeeded.
C13_Witness ==
    /\ ClosedIds # {}
    /\ current_task # NoTask
    /\ tret = [op |-> "start", raised |-> "RuntimeError",
               existing |-> current_task[1].id]

\* A close was rejected after an earlier task had been closed.
C13_WitnessClose ==
    /\ ClosedIds # {}
    /\ current_task = NoTask
    /\ tret = [op |-> "close", success |-> TRUE, raised |-> "RuntimeError"]

\* The events of tasks.jsonl about one task, by name, in order.
EventId(entry) ==
    IF entry.event = "task_progress" THEN entry.task_id ELSE entry.task.id

RECURSIVE EventNames(_, _)
EventNames(log, id) ==
    IF log = <<>> THEN <<>>
    ELSE LET rest == EventNames(Tail(log), id)
         IN  IF EventId(Head(log)) = id THEN <<Head(log).event>> \o rest ELSE rest

\* none -> active -> {completed, failed}: a task's events begin with its
\* one task_started, and a task_closed, with status completed or failed, is
\* the last of them; a closed task is not the current task.
LifecycleOrder ==
    /\ \A id \in {EventId(tasks_log[k]) : k \in DOMAIN tasks_log} :
        LET names == EventNames(tasks_log, id)
        IN  /\ names[1] = "task_started"
            /\ \A k \in 2..Len(names) :
                /\ names[k] # "task_started"
                /\ names[k] = "task_closed" => k = Len(names)
    /\ \A k \in DOMAIN tasks_log :
        tasks_log[k].event = "task_closed" =>
            tasks_log[k].task.status \in {"completed", "failed"}
    /\ current_task # NoTask => current_task[1].id \notin ClosedIds

\* What a close_task call that finds an active task does.
CloseStep ==
    (tret'.op = "close" /\ current_task # NoTask) =>
        /\ "task" \in DOMAIN tret'
        /\ tret'.task.id = current_task[1].id
        /\ tret'.task.status = IF tret'.success THEN "completed" ELSE "failed"
        /\ tasks_log' = Append(tasks_log, [event |-> "task_closed", task |-> tret'.task])
        /\ metrics'.tasks_completed = metrics.tasks_completed + 1
        /\ metrics'.tasks_successful =
                metrics.tasks_successful + (IF tret'.success THEN 1 ELSE 0)
        /\ metrics'.tasks_failed =
                metrics.tasks_failed + (IF tret'.success THEN 0 ELSE 1)
        /\ current_task' = NoTask
        /\ active_task' = 0

\* C14: every task goes none -> active -> {completed, failed}; a close_task
\* that finds an active task ends it as completed when success is true and
\* as failed otherwise, appends one task_closed event, adds 1 to
\* tasks_completed and to exactly one of tasks_successful and tasks_failed,
\* and leaves no task active; a closed task is never active again.
C14_TaskLifecycle == []LifecycleOrder /\ [][CloseStep]_vars

\* A second task was closed as failed after the first was closed as completed.
C14_Witness ==
    /\ tret.op = "close"
    /\ "task" \in DOMAIN tret
    /\ ~tret.success
    /\ current_task = NoTask
    /\ metrics.tasks_successful = 1
    /\ metrics.tasks_failed = 1

\* What a gate pass does to the task records and the progress counter.
PassStep ==
    /\ (tret'.op = "pass" /\ current_task = NoTask) =>
            UNCHANGED <<current_task, tasks_log, metrics, active_task>>
    /\ (tret'.op = "pass" /\ current_task # NoTask) =>
            /\ "task" \in DOMAIN tret'
            /\ tret'.task.id = current_task[1].id
            /\ tret'.task.progress_events = current_task[1].progress_events + 1
            /\ current_task' # NoTask =>
                    current_task'[1].progress_events =
                        current_task[1].progress_events + 1
            /\ metrics'.task_progress_events = metrics.task_progress_events + 1

\* After a task was started, passed the gate and was closed as completed,
\* the three counters are positive.
ProgressThenSuccessCounted ==
    \A k \in DOMAIN tasks_log :
        (/\ tasks_log[k].event = "task_closed"
         /\ tasks_log[k].task.status = "completed"
         /\ tasks_log[k].task.progress_events > 0) =>
            /\ metrics.task_progress_events > 0
            /\ metrics.tasks_completed > 0
            /\ metrics.tasks_successful > 0

\* C15: a gate pass with no active task changes neither the task records
\* nor the metrics; a gate pass with an active task adds exactly 1 to the
\* task's progress_events and exactly 1 to metrics.task_progress_events, so
\* after start / gate pass / close with success task_progress_events,
\* tasks_completed and tasks_successful are all positive.
C15_GatePassCountsProgress == []ProgressThenSuccessCounted /\ [][PassStep]_vars

\* start_task, one gate pass, close_task(success): each counter is 1.
C15_Witness ==
    /\ Len(tasks_log) = 3
    /\ tasks_log[1].event = "task_started"
    /\ tasks_log[2].event = "task_progress"
    /\ tasks_log[3].event = "task_closed"
    /\ tret.op = "close"
    /\ "task" \in DOMAIN tret
    /\ tret.success
    /\ metrics.task_progress_events = 1
    /\ metrics.tasks_completed = 1
    /\ metrics.tasks_successful = 1

\* Whether the pass now being recorded must close the active task.
AutoCloseDue ==
    /\ policy.auto_close = "1"
    /\ current_task[1].progress_events + 1 >= policy.min_passes
    /\ \/ current_task[1].last_quality_gate_fail_at = NoTime
       \/ now - current_task[1].last_quality_gate_fail_at > CoolDown

AutoCloseStep ==
    (tret'.op = "pass" /\ current_task # NoTask) =>
        /\ current_task' = NoTask <=> AutoCloseDue
        /\ current_task' = NoTask =>
            /\ tasks_log'[Len(tasks_log')].event = "task_closed"
            /\ tasks_log'[Len(tasks_log')].task.id = current_task[1].id
            /\ tasks_log'[Len(tasks_log')].task.status = "completed"
        /\ policy.auto_close # "1" => current_task' # NoTask

\* C16: a gate pass closes the active task, as completed, only when
\* NEXUS_TASK_AUTO_CLOSE is "1", and then exactly when the task's
\* progress_events has reached NEXUS_TASK_AUTO_CLOSE_MIN_PASSES and the
\* task's last gate failure, if any, is more than the cool-down ago; with
\* the default environment no gate pass closes a task.
C16_AutoCloseOnlyByPolicy == [][AutoCloseStep]_vars

\* A pass closed a task whose gate failure was older than the cool-down.
C16_Witness ==
    /\ tret.op = "pass"
    /\ tret.result = "closed"
    /\ tret.task.last_quality_gate_fail_at # NoTime
    /\ tret.task.status = "completed"

\* ---- The pattern store under direct add_pattern calls (SpecPatterns) ----

\* Most add_pattern calls after the initial store.
MaxPatternCalls == 2

\* The store after k observations of one failure: add_pattern("fix", "s",
\* example={"n": i}, outcome="success") for i = 1..k.
RECURSIVE Replay(_)
Replay(k) ==
    IF k = 0 THEN _init_learning
    ELSE add_pattern(Replay(k - 1), <<"f","i","x">>, <<"s">>, <<[n |-> k]>>, Empty, <<>>,
                     <<"s","u","c","c","e","s","s">>, EmptyDict)

\* How many observations the store has seen when the calls begin: none, one
\* short of a full example buffer, a full example buffer.
Prefills == {0, EXAMPLE_LIMIT - 1, EXAMPLE_LIMIT}

\* The arguments of the calls.  Empty stands for "" and for a missing
\* argument (None), which `x or y` treats alike.
PatternTypes == {<<"f","i","x">>, <<" ">>}
PatternSignatures == {<<"s">>, Empty, <<" ">>}
PatternOutcomes == {<<"s","u","c","c","e","s","s">>, <<"F","A","I","L","U","R","E">>, <<"s","k","i","p","p","e","d">>, Empty}
PatternExamples == {<<>>, <<[n |-> 0]>>}

InitPatterns ==
    /\ queue = <<>>
    /\ learning \in {Replay(k) : k \in Prefills}
    /\ metrics = _metrics_defaults
    /\ nextId = 1
    /\ nCalls = 0
    /\ added = <<>>
    /\ ret = [op |-> "none"]
    /\ pc = [p \in Procs |-> "idle"]
    /\ loc = [p \in Procs |-> NoLocals]
    /\ attemptedBy = [p \in Procs |-> {}]
    /\ overlap = FALSE
    /\ planIn = GatePytestIncident
    /\ planOut = NoPlan
    /\ current_task = NoTask
    /\ tasks_log = <<>>
    /\ active_task = 0
    /\ now = 0
    /\ policy = DefaultPolicy
    /\ nextTaskId = 1
    /\ nTaskCalls = 0
    /\ tret = [op |-> "none"]
    /\ pcall = [op |-> "none"]
    /\ nPatCalls = 0
    /\ FileIdle
    /\ GateIdle
    /\ HooksIdle

\* sm.add_pattern(pattern_type, signature, example=example, outcome=outcome)
AddPattern(pattern_type, signature, example, outcome) ==
    /\ nPatCalls < MaxPatternCalls
    /\ nPatCalls' = nPatCalls + 1
    /\ learning' = add_pattern(learning, pattern_type, signature, example, Empty,
                               <<>>, outcome, EmptyDict)
    /\ pcall' = [op |-> "add", pattern_type |-> pattern_type,
                 signature |-> signature, example |-> example, outcome |-> outcome]
    /\ UNCHANGED <<queue, metrics, nextId, nCalls, added, ret, pc, loc, attemptedBy,
                   overlap, planIn, planOut, tmVars, smVars, qgVars, hkVars>>

NextPatterns ==
    \E pattern_type \in PatternTypes, signature \in PatternSignatures,
       example \in PatternExamples, outcome \in PatternOutcomes :
        AddPattern(pattern_type, signature, example, outcome)

\* The pattern store under every sequence of add_pattern calls.
SpecPatterns == InitPatterns /\ [][NextPatterns]_vars

\* ---- Properties of the pattern store (SpecPatterns) ----

\* The sum of the count fields of a type bucket's signature entries.
RECURSIVE SumCounts(_, _)
SumCounts(by_signature, keys) ==
    IF keys = {} THEN 0
    ELSE LET k == CHOOSE x \in keys : TRUE
         IN  by_signature[k].count + SumCounts(by_signature, keys \ {k})

\* C17: for every pattern type, after any sequence of add_pattern calls with
\* any mix of types, signatures and outcomes, total_count is the sum of the
\* count fields of the type's signature entries.
C17_TotalIsSumOfSignatureCounts ==
    \A pattern_type \in DOMAIN learning.patterns :
        LET bucket == learning.patterns[pattern_type]
        IN  bucket.total_count = SumCounts(bucket.by_signature, DOMAIN bucket.by_signature)

\* Two types are in the store, one of them with two signatures and a total
\* above the example limit.
C17_Witness ==
    /\ pcall.op = "add"
    /\ Cardinality(DOMAIN learning.patterns) = 2
    /\ \E pattern_type \in DOMAIN learning.patterns :
        /\ Cardinality(DOMAIN learning.patterns[pattern_type].by_signature) = 2
        /\ learning.patterns[pattern_type].total_count > EXAMPLE_LIMIT

\* A counter of a type bucket, 0 while the store has no such bucket.
TypeCounter(store, pattern_type, field) ==
    IF pattern_type \in DOMAIN store.patterns
    THEN store.patterns[pattern_type][field]
    ELSE 0

\* A counter of a signature entry, 0 while the store has no such entry.
SignatureCounter(store, pattern_type, signature, field) ==
    IF /\ pattern_type \in DOMAIN store.patterns
       /\ signature \in DOMAIN store.patterns[pattern_type].by_signature
    THEN store.patterns[pattern_type].by_signature[signature][field]
    ELSE 0

Bit(b) == IF b THEN 1 ELSE 0

\* success_count + failure_count is at most the total, per type and per
\* signature entry.
CountsBounded ==
    \A pattern_type \in DOMAIN learning.patterns :
        LET bucket == learning.patterns[pattern_type]
        IN  /\ bucket.success_count + bucket.failure_count <= bucket.total_count
            /\ \A signature \in DOMAIN bucket.by_signature :
                LET entry == bucket.by_signature[signature]
                IN  entry.success_count + entry.failure_count <= entry.count

\* What one add_pattern call does to the counters, given whether its outcome
\* is taken as a success and whether as a failure: one type bucket and one
\* of its signature entries gain 1 in their total, 1 in success_count for a
\* success, 1 in failure_count for a failure; every other counter, of every
\* bucket, is as it was, and no bucket goes away.
CountersStep(is_success, is_failure) ==
    nPatCalls' # nPatCalls =>
        /\ DOMAIN learning.patterns \subseteq DOMAIN learning'.patterns
        /\ \A t \in DOMAIN learning.patterns :
            DOMAIN learning.patterns[t].by_signature
                \subseteq DOMAIN learning'.patterns[t].by_signature
        /\ \E pattern_type \in DOMAIN learning'.patterns :
           \E signature \in DOMAIN learning'.patterns[pattern_type].by_signature :
              \A t \in DOMAIN learning'.patterns :
                /\ TypeCounter(learning', t, "total_count") =
                       TypeCounter(learning, t, "total_count") + Bit(t = pattern_type)
                /\ TypeCounter(learning', t, "success_count") =
                       TypeCounter(learning, t, "success_count")
                       + Bit(t = pattern_type /\ is_success)
                /\ TypeCounter(learning', t, "failure_count") =
                       TypeCounter(learning, t, "failure_count")
                       + Bit(t = pattern_type /\ is_failure)
                /\ \A s \in DOMAIN learning'.patterns[t].by_signature :
                    LET here == t = pattern_type /\ s = signature
                    IN  /\ SignatureCounter(learning', t, s, "count") =
                               SignatureCounter(learning, t, s, "count") + Bit(here)
                        /\ SignatureCounter(learning', t, s, "success_count") =
                               SignatureCounter(learning, t, s, "success_count")
                               + Bit(here /\ is_success)
                        /\ SignatureCounter(learning', t, s, "failure_count") =
                               SignatureCounter(learning, t, s, "failure_count")
                               + Bit(here /\ is_failure)

\* C18 as stated: success_count + failure_count <= total for every type and
\* signature entry; an observation whose outcome is `success` increments
\* only the success counter, one whose outcome is `failure` only the
\* failure counter, and any other outcome increments the total and neither
\* of them; no counter ever decreases.
C18_CountersFollowLiteralOutcome ==
    []CountsBounded
    /\ [][CountersStep(pcall'.outcome = <<"s","u","c","c","e","s","s">>, pcall'.outcome = <<"f","a","i","l","u","r","e">>)]_vars

\* C18, amended: the same, with the outcome compared in lower case (an
\* outcome that is `success` or `failure` but for the case of its letters
\* counts as that outcome).
C18_CountersFollowOutcome ==
    []CountsBounded
    /\ [][CountersStep(Lower(pcall'.outcome) = <<"s","u","c","c","e","s","s">>,
                       Lower(pcall'.outcome) = <<"f","a","i","l","u","r","e">>)]_vars

\* A type bucket that has counted a success, a failure and an observation
\* that is neither.
C18_Witness ==
    /\ pcall.op = "add"
    /\ \E pattern_type \in DOMAIN learning.patterns :
        LET bucket == learning.patterns[pattern_type]
        IN  /\ bucket.success_count >= 1
            /\ bucket.failure_count >= 1
            /\ bucket.success_count + bucket.failure_count < bucket.total_count

\* No example buffer holds more than EXAMPLE_LIMIT examples.
ExamplesCapped ==
    \A pattern_type \in DOMAIN learning.patterns :
        \A signature \in DOMAIN learning.patterns[pattern_type].by_signature :
            Len(learning.patterns[pattern_type].by_signature[signature].examples)
                <= EXAMPLE_LIMIT

\* The example buffer of a signature entry, empty while there is no entry.
ExamplesOf(store, pattern_type, signature) ==
    IF /\ pattern_type \in DOMAIN store.patterns
       /\ signature \in DOMAIN store.patterns[pattern_type].by_signature
    THEN store.patterns[pattern_type].by_signature[signature].examples
    ELSE <<>>

\* One add_pattern call with an example appends it to the buffer of the
\* entry it counts in, which then holds the last EXAMPLE_LIMIT of the old
\* examples and the new one, in order; every other buffer is as it was.
ExamplesStep ==
    nPatCalls' # nPatCalls =>
        \A t \in DOMAIN learning'.patterns :
            \A s \in DOMAIN learning'.patterns[t].by_signature :
                LET old == ExamplesOf(learning, t, s)
                    new == ExamplesOf(learning', t, s)
                    counted == SignatureCounter(learning', t, s, "count")
                               # SignatureCounter(learning, t, s, "count")
                IN  IF counted /\ pcall'.example # <<>>
                    THEN /\ Len(new) = IF Len(old) < EXAMPLE_LIMIT THEN Len(old) + 1
                                       ELSE EXAMPLE_LIMIT
                         /\ new[Len(new)].example = pcall'.example[1]
                         /\ \A i \in 1..(Len(new) - 1) :
                                new[i] = old[Len(old) + 1 - Len(new) + i]
                    ELSE new = old

\* C19: an example buffer never holds more than 8 examples; when a ninth is
\* appended the oldest is dropped, so the buffer holds the most recent
\* min(n, 8) examples in arrival order.
C19_ExamplesKeepNewestEight == []ExamplesCapped /\ [][ExamplesStep]_vars

\* A buffer that took ten examples: the first two are gone, the third is
\* the oldest and the two appended last are at the end.
C19_Witness ==
    \E pattern_type \in DOMAIN learning.patterns :
        \E signature \in DOMAIN learning.patterns[pattern_type].by_signature :
            LET entry == learning.patterns[pattern_type].by_signature[signature]
            IN  /\ entry.count = EXAMPLE_LIMIT + 2
                /\ Len(entry.examples) = EXAMPLE_LIMIT
                /\ entry.examples[1].example.n = 3
                /\ entry.examples[EXAMPLE_LIMIT - 1].example.n = 0
                /\ entry.examples[EXAMPLE_LIMIT].example.n = 0

\* C20: after any add_pattern call, whatever type and signature were passed
\* (empty, missing and whitespace-only included), every pattern-type key and
\* every signature key of the store is a non-empty string.
C20_KeysAreNonEmpty ==
    \A pattern_type \in DOMAIN learning.patterns :
        /\ pattern_type # Empty
        /\ \A signature \in DOMAIN learning.patterns[pattern_type].by_signature :
            signature # Empty

\* ---- learning_patterns.json in any schema (SpecLoad) ----

\* Most writes of learning_patterns.json in one behaviour.
MaxFileWrites == 3

\* The values a key of the "patterns" map can hold: a normalized type
\* bucket (a dict with "by_signature"), a legacy list of entries, a legacy
\* dict without "by_signature", anything else.
Bucket(bucket) == [py |-> "bucket", bucket |-> bucket]
LegacyList(items) == [py |-> "list", items |-> items]
LegacyDict(item) == [py |-> "dict", item |-> item]
NotADict == [py |-> "other"]

\* A legacy entry: a dict with the keys _normalize_learning reads (Empty for
\* a key the entry does not have).
LegacyItem(signature, error, command, type, outcome) ==
    [py |-> "dict", signature |-> signature, error |-> error, command |-> command,
     type |-> type, outcome |-> outcome, suggested_fix |-> Empty]

\* The "patterns" field: a map with its keys in insertion order, or
\* something that is no map (a list, a missing field).
PatternsMap(keys, value) == [py |-> "map", keys |-> keys, value |-> value]
NotAMap == [py |-> "other"]
EmptyMap == PatternsMap(<<>>, EmptyDict)

\* learning_patterns.json holding a JSON object with this "patterns" field.
JsonFile(patterns) == [kind |-> "json", patterns |-> patterns]

\* _load_json(self.learning_file, self._init_learning) for a file that is
\* absent, unparseable, or holds a JSON object: its "patterns" field.
_load_json(file) ==
    IF file.kind \in {"absent", "unparseable"} THEN EmptyMap ELSE file.patterns

\* safe_type of _add_pattern_internal: the key an observation is stored under.
safe_type(pattern_type) == Or(Strip(Or(pattern_type, <<"u","n","k","n","o","w","n">>)), <<"u","n","k","n","o","w","n">>)

\* One replayed observation: _add_pattern_internal on the store being
\* built, with the keys of the store in the order they were created.
Observe(acc, pattern_type, signature, example, suggested_fix, outcome) ==
    LET t == safe_type(pattern_type)
    IN  [keys |-> IF \E i \in DOMAIN acc.keys : acc.keys[i] = t THEN acc.keys
                  ELSE Append(acc.keys, t),
         store |-> _add_pattern_internal(acc.store, pattern_type, signature, example,
                                         suggested_fix, <<>>, outcome, EmptyDict)]

\* The signature _normalize_learning gives a legacy list entry.
ItemSignature(item, pattern_type) ==
    ReplaceNewlines(Strip(Or(item.signature, Or(item.error, Or(item.command,
                              Or(item.type, pattern_type))))))

\* The loop over the items of one legacy list: entries that are no dict are
\* skipped.
RECURSIVE ReplayItems(_, _, _)
ReplayItems(acc, pattern_type, items) ==
    IF items = <<>> THEN acc
    ELSE LET item == Head(items)
             next == IF item.py = "dict"
                     THEN Observe(acc, pattern_type, ItemSignature(item, pattern_type),
                                  <<item>>, item.suggested_fix, Lower(item.outcome))
                     ELSE acc
         IN  ReplayItems(next, pattern_type, Tail(items))

\* The loop over patterns.items(): a list is replayed entry by entry, a dict
\* (with or without "by_signature") as one observation whose signature is
\* the type, anything else is passed over.
RECURSIVE ReplayEntries(_, _, _)
ReplayEntries(acc, keys, value) ==
    IF keys = <<>> THEN acc
    ELSE LET pattern_type == Head(keys)
             items == value[pattern_type]
             next == IF items.py = "list"
                     THEN ReplayItems(acc, pattern_type, items.items)
                     ELSE IF items.py = "dict"
                     THEN Observe(acc, pattern_type, pattern_type, <<items.item>>,
                                  items.item.suggested_fix, items.item.outcome)
                     ELSE IF items.py = "bucket"
                     THEN Observe(acc, pattern_type, pattern_type, <<items.bucket>>,
                                  Empty, Empty)
                     ELSE acc
         IN  ReplayEntries(next, Tail(keys), value)

\* Whether the loop of _normalize_learning replays anything (changed).
Replayed(patterns) ==
    \E key \in DOMAIN patterns.value :
        LET items == patterns.value[key]
        IN  \/ items.py \in {"dict", "bucket"}
            \/ /\ items.py = "list"
               /\ \E i \in DOMAIN items.items : items.items[i].py = "dict"

\* The store _normalize_learning returns after the replay: the buckets
\* built, under their keys in the order they were created.
NormalizedFrom(acc) ==
    [patterns |-> PatternsMap(acc.keys,
                     [k \in DOMAIN acc.store.patterns |-> Bucket(acc.store.patterns[k])]),
     changed |-> TRUE]

\* _normalize_learning(learning): the "patterns" field of the store it
\* returns, and whether it changed anything.
_normalize_learning(patterns) ==
    IF patterns.py # "map"
    THEN [patterns |-> EmptyMap, changed |-> TRUE]
    ELSE IF \A key \in DOMAIN patterns.value : patterns.value[key].py = "bucket"
    THEN [patterns |-> patterns, changed |-> FALSE]
    ELSE IF ~Replayed(patterns)
    THEN [patterns |-> patterns, changed |-> FALSE]
    ELSE NormalizedFrom(ReplayEntries([keys |-> <<>>, store |-> _init_learning],
                                      patterns.keys, patterns.value))

\* The end of load_learning(): the normalized store n is saved if it was
\* changed, and returned.
SaveIfChanged(n, file) ==
    [raised |-> FALSE, patterns |-> n.patterns,
     file |-> IF n.changed THEN JsonFile(n.patterns) ELSE file,
     wrote |-> n.changed]

\* load_learning(): the store returned, the file afterwards and whether it
\* was written.  A file holding JSON that is no object makes learning.get
\* raise AttributeError.
load_learning(file) ==
    IF file.kind = "not_an_object"
    THEN [raised |-> TRUE, patterns |-> NotAMap, file |-> file, wrote |-> FALSE]
    ELSE SaveIfChanged(_normalize_learning(_load_json(file)), file)

\* add_pattern(pattern_type, signature, example, outcome=outcome) on the
\* file, l being what load_learning returned: _add_pattern_internal, then
\* save_learning.  A type key
\* that holds anything but a bucket makes _add_pattern_internal raise
\* (setdefault on a list, KeyError on a dict without total_count), before
\* the store is saved.
AddToLoaded(l, file, pattern_type, signature, example, outcome) ==
    LET p == l.patterns
        t == safe_type(pattern_type)
    IN  IF l.raised
        THEN [raised |-> TRUE, file |-> file, writes |-> 0]
        ELSE IF t \in DOMAIN p.value /\ p.value[t].py # "bucket"
        THEN [raised |-> TRUE, file |-> l.file, writes |-> IF l.wrote THEN 1 ELSE 0]
        ELSE LET buckets == {k \in DOMAIN p.value : p.value[k].py = "bucket"}
                 sub == [patterns |-> [k \in buckets |-> p.value[k].bucket]]
                 out == add_pattern(sub, pattern_type, signature, example, Empty,
                                    <<>>, outcome, EmptyDict)
                 value == [k \in DOMAIN p.value \cup {t} |->
                              IF k \in DOMAIN out.patterns THEN Bucket(out.patterns[k])
                              ELSE p.value[k]]
                 keys == IF t \in DOMAIN p.value THEN p.keys ELSE Append(p.keys, t)
             IN  [raised |-> FALSE, file |-> JsonFile(PatternsMap(keys, value)),
                  writes |-> (IF l.wrote THEN 1 ELSE 0) + 1]

\* add_pattern(pattern_type, signature, example, outcome=outcome) on the
\* file.
add_pattern_on_file(file, pattern_type, signature, example, outcome) ==
    AddToLoaded(load_learning(file), file, pattern_type, signature, example, outcome)

\* The files the calls begin with: none, an unparseable one, JSON that is no
\* object, an object whose "patterns" is no map, legacy stores (lists of
\* entries, one of them no dict; only an empty list; an empty list beside a
\* list; a legacy dict) and a normalized store.
LegacyFull ==
    JsonFile(PatternsMap(<<<<"e","r","r">>, <<"o","k">>>>,
        (<<"e","r","r">> :> LegacyList(<<LegacyItem(<<"a">>, Empty, Empty, Empty, <<"S","U","C","C","E","S","S">>),
                              LegacyItem(Empty, <<"b">>, Empty, Empty, Empty),
                              NotADict>>))
        @@ (<<"o","k">> :> LegacyList(<<LegacyItem(Empty, Empty, <<"c">>, Empty, <<"f","a","i","l","u","r","e">>)>>))))

LegacyEmpty == JsonFile(PatternsMap(<<<<"e","r","r">>>>, (<<"e","r","r">> :> LegacyList(<<>>))))

\* A legacy list that holds no record: only entries that are no dict.
LegacyNoRecords == JsonFile(PatternsMap(<<<<"e","r","r">>>>, (<<"e","r","r">> :> LegacyList(<<NotADict>>))))

LegacyPartlyEmpty ==
    JsonFile(PatternsMap(<<<<"e","r","r">>, <<"o","k">>>>,
        (<<"e","r","r">> :> LegacyList(<<>>))
        @@ (<<"o","k">> :> LegacyList(<<LegacyItem(Empty, Empty, <<"c">>, Empty, <<"f","a","i","l","u","r","e">>)>>))))

LegacyDictStyle ==
    JsonFile(PatternsMap(<<<<"e","r","r">>>>,
        (<<"e","r","r">> :> LegacyDict(LegacyItem(Empty, Empty, Empty, Empty, <<"s","u","c","c","e","s","s">>)))))

NormalizedFile ==
    JsonFile(PatternsMap(<<<<"f","i","x">>>>, (<<"f","i","x">> :> Bucket(Replay(1).patterns[<<"f","i","x">>]))))

LearningFiles ==
    {[kind |-> "absent"], [kind |-> "unparseable"], [kind |-> "not_an_object"],
     JsonFile(NotAMap), LegacyFull, LegacyEmpty, LegacyNoRecords, LegacyPartlyEmpty,
     LegacyDictStyle,
     NormalizedFile}

FileTypes == {<<"e","r","r">>, <<"n","e","w">>}
FileSignatures == {<<"a">>, Empty}
FileOutcomes == {<<"s","u","c","c","e","s","s">>, Empty}

InitLoad ==
    /\ queue = <<>>
    /\ learning = _init_learning
    /\ metrics = _metrics_defaults
    /\ nextId = 1
    /\ nCalls = 0
    /\ added = <<>>
    /\ ret = [op |-> "none"]
    /\ pc = [p \in Procs |-> "idle"]
    /\ loc = [p \in Procs |-> NoLocals]
    /\ attemptedBy = [p \in Procs |-> {}]
    /\ overlap = FALSE
    /\ planIn = GatePytestIncident
    /\ planOut = NoPlan
    /\ current_task = NoTask
    /\ tasks_log = <<>>
    /\ active_task = 0
    /\ now = 0
    /\ policy = DefaultPolicy
    /\ nextTaskId = 1
    /\ nTaskCalls = 0
    /\ tret = [op |-> "none"]
    /\ pcall = [op |-> "none"]
    /\ nPatCalls = 0
    /\ learning_file \in LearningFiles
    /\ file_writes = 0
    /\ lret = [op |-> "none"]
    /\ GateIdle
    /\ HooksIdle

\* sm.load_learning()
LoadLearning ==
    LET r == load_learning(learning_file)
    IN  /\ learning_file' = r.file
        /\ file_writes' = file_writes + (IF r.wrote THEN 1 ELSE 0)
        /\ lret' = [op |-> "load", raised |-> r.raised, patterns |-> r.patterns]
        /\ UNCHANGED <<queue, learning, metrics, nextId, nCalls, added, ret, pc, loc,
                       attemptedBy, overlap, planIn, planOut, tmVars, psVars,
                       qgVars, hkVars>>

\* sm.add_pattern(pattern_type, signature, outcome=outcome)
AddPatternOnFile(pattern_type, signature, outcome) ==
    LET r == add_pattern_on_file(learning_file, pattern_type, signature, <<>>, outcome)
    IN  /\ file_writes < MaxFileWrites
        /\ learning_file' = r.file
        /\ file_writes' = file_writes + r.writes
        /\ lret' = [op |-> "add", raised |-> r.raised, pattern_type |-> pattern_type,
                    signature |-> signature, outcome |-> outcome]
        /\ UNCHANGED <<queue, learning, metrics, nextId, nCalls, added, ret, pc, loc,
                       attemptedBy, overlap, planIn, planOut, tmVars, psVars,
                       qgVars, hkVars>>

NextLoad ==
    \/ LoadLearning
    \/ \E pattern_type \in FileTypes, signature \in FileSignatures,
          outcome \in FileOutcomes :
            AddPatternOnFile(pattern_type, signature, outcome)

\* The state manager on a learning file found in any state.
SpecLoad == InitLoad /\ [][NextLoad]_vars

\* ---- Properties of the learning file (SpecLoad) ----

\* A file in the legacy schema: every type holds a list of entries.
IsLegacyListFile(file) ==
    /\ file.kind = "json"
    /\ file.patterns.py = "map"
    /\ file.patterns.keys # <<>>
    /\ \A k \in DOMAIN file.patterns.value : file.patterns.value[k].py = "list"

\* A "patterns" map in the normalized schema: every type holds a bucket.
IsNormalized(patterns) ==
    /\ patterns.py = "map"
    /\ \A k \in DOMAIN patterns.value : patterns.value[k].py = "bucket"

\* The legacy entries (dicts) of a list.
LegacyEntries(items) == Cardinality({i \in DOMAIN items : items[i].py = "dict"})

\* The total_count of a type in a normalized map, 0 for a type without bucket.
MigratedTotal(patterns, k) ==
    IF k \in DOMAIN patterns.value THEN patterns.value[k].bucket.total_count ELSE 0

\* load_learning on a legacy file: the store returned is normalized, each
\* type's total_count is the number of its legacy entries, and the store
\* is written to the file, once.
MigrationStep ==
    (lret'.op = "load" /\ IsLegacyListFile(learning_file)) =>
        /\ IsNormalized(lret'.patterns)
        /\ \A k \in DOMAIN learning_file.patterns.value :
            MigratedTotal(lret'.patterns, k) =
                LegacyEntries(learning_file.patterns.value[k].items)
        /\ learning_file' = JsonFile(lret'.patterns)
        /\ file_writes' = file_writes + 1

\* load_learning on a normalized file returns the file's store and writes
\* nothing.
ReloadStep ==
    (/\ lret'.op = "load"
     /\ learning_file.kind = "json"
     /\ IsNormalized(learning_file.patterns)) =>
        /\ lret'.patterns = learning_file.patterns
        /\ UNCHANGED <<learning_file, file_writes>>

\* C21: loading a store in the legacy list-per-type schema replays every
\* legacy entry, so that each type's migrated total_count is the number of
\* its legacy entries; the normalized store is persisted once, and loading
\* again returns the same store and does not rewrite it.
C21_LegacyStoreIsMigratedOnce == [][MigrationStep /\ ReloadStep]_vars

\* A corrupt learning file: unparseable, or its "patterns" is no map.
IsCorrupt(file) ==
    \/ file.kind = "unparseable"
    \/ file.kind = "json" /\ file.patterns.py # "map"

\* load_learning on a corrupt file returns the empty normalized store and
\* leaves it in the file.
CorruptLoadStep ==
    (lret'.op = "load" /\ IsCorrupt(learning_file)) =>
        /\ ~lret'.raised
        /\ lret'.patterns = EmptyMap
        /\ learning_file' = JsonFile(EmptyMap)

\* add_pattern on a corrupt file succeeds: the file then holds a normalized
\* store with the one observation.
CorruptAddStep ==
    (lret'.op = "add" /\ IsCorrupt(learning_file)) =>
        /\ ~lret'.raised
        /\ learning_file'.kind = "json"
        /\ IsNormalized(learning_file'.patterns)
        /\ Len(learning_file'.patterns.keys) = 1
        /\ learning_file'.patterns.value[learning_file'.patterns.keys[1]]
                .bucket.total_count = 1

\* C22: loading a corrupt pattern store (unparseable, or "patterns" no map)
\* yields an empty normalized store that is persisted, and add_pattern
\* calls after it succeed.
C22_CorruptStoreIsReplaced == [][CorruptLoadStep /\ CorruptAddStep]_vars


\* ---------------------------------------------------------- quality gate
\* hooks/quality_gate.py.  Relative paths are texts; the content of a file
\* is either Data(n), n naming what is written in it, or a JSON document.

Digits == <<"0","1","2","3","4","5","6","7","8","9">>

\* str(n) for n >= 0.
RECURSIVE IntText(_)
IntText(n) ==
    IF n < 10 THEN <<Digits[n + 1]>>
    ELSE IntText(n \div 10) \o <<Digits[(n % 10) + 1]>>

\* str.endswith
EndsWith(text, suffix) ==
    /\ Len(text) >= Len(suffix)
    /\ SubSeq(text, Len(text) - Len(suffix) + 1, Len(text)) = suffix

Min(a, b) == IF a <= b THEN a ELSE b

Range(seq) == {seq[i] : i \in 1..Len(seq)}

\* The name snapshot_files gives the manifest inside the snapshot directory.
ManifestName == <<"_","m","a","n","i","f","e","s","t",".","j","s","o","n">>

\* unique[:50]: how many changed paths the summary keeps.
SUMMARY_LIMIT == 50

\* changed_files[:200]: how many changed paths a snapshot looks at.
SNAPSHOT_LIMIT == 200

\* diff_limit=200: the largest number of added plus deleted lines that passes.
DIFF_LIMIT == 200

\* The return code run() gives a command that timed out.
TimeoutCode == 124

Data(n) == [data |-> n]

File(content) == [kind |-> "file", content |-> content]

Dir == [kind |-> "dir", content |-> Data(0)]

Missing == [kind |-> "missing", content |-> Data(0)]

\* What is at root / rel.
At(tree, rel) == IF rel \in DOMAIN tree THEN tree[rel] ELSE Missing

\* Path.exists()
Exists(tree, rel) == At(tree, rel).kind # "missing"

\* git_present(root)
git_present(tree) == Exists(tree, <<".","g","i","t">>)

\* The de-duplication loop of changed_files_summary: first occurrences, in
\* order.
RECURSIVE Unique(_, _)
Unique(changed, seen) ==
    IF changed = <<>> THEN <<>>
    ELSE IF Head(changed) \in seen THEN Unique(Tail(changed), seen)
    ELSE <<Head(changed)>> \o Unique(Tail(changed), seen \cup {Head(changed)})

\* `git diff --name-only`: the tracked paths whose working copy differs from
\* the index, in git's order.
git_diff_names(project, tree) ==
    SelectSeq(project.tracked, LAMBDA rel : At(tree, rel) # File(project.index[rel]))

\* changed_files_summary(root, event).  names is what `git diff --name-only`
\* printed; candidate is <<>> when the event names no file (or one outside
\* the root, which relative_to rejects), else <<rel>>.
changed_files_summary(is_git, names, candidate) ==
    LET changed == (IF is_git THEN names ELSE <<>>) \o candidate
        unique == Unique(changed, {})
    IN  [count |-> Len(unique),
         files |-> SubSeq(unique, 1, Min(SUMMARY_LIMIT, Len(unique)))]

\* snapshot_files(root, changed_files): the snapshot directory, relative path
\* -> content.  The manifest is written last, under ManifestName, into the
\* directory the copies are in (its timestamp and root are left out).  Two
\* runs are taken to be more than a second apart, so that each has a
\* directory of its own.
snapshot_files(tree, changed_files) ==
    LET first == SubSeq(changed_files, 1, Min(SNAPSHOT_LIMIT, Len(changed_files)))
        captured == SelectSeq(first, LAMBDA rel : At(tree, rel).kind = "file")
        manifest == [files |-> captured]
        copies == [rel \in Range(captured) |-> tree[rel].content]
    IN  (ManifestName :> manifest) @@ copies

\* `git checkout -- .`: every tracked path is back to its content in the
\* index; untracked paths are left alone.
git_checkout(project, tree) ==
    [rel \in DOMAIN tree |->
        IF rel \in DOMAIN project.index THEN File(project.index[rel]) ELSE tree[rel]]

\* rollback(root, snap_path): the method used and the working tree it
\* leaves.
rollback(project, tree, snap) ==
    IF git_present(tree)
    THEN [method |-> "git_checkout", tree |-> git_checkout(project, tree)]
    ELSE IF ManifestName \notin DOMAIN snap
    THEN [method |-> "snapshot_missing", tree |-> tree]
    ELSE LET files == Range(snap[ManifestName].files) \cap DOMAIN snap
         IN  [method |-> "snapshot_restore",
              tree |-> [rel \in DOMAIN tree \cup files |->
                           IF rel \in files THEN File(snap[rel]) ELSE tree[rel]]]


\* ------------------------------------------------------------- the checks
\* What a check's subprocess did: it exited, or it ran into the timeout
\* (exc is the text of the TimeoutExpired exception).
Exited(returncode, stdout, stderr) ==
    [kind |-> "exit", returncode |-> returncode, stdout |-> stdout, stderr |-> stderr]

TimedOut == [kind |-> "timeout", exc |-> <<"t","i","m","e","d"," ","o","u","t"," ","a","f","t","e","r"," ","3","0","0"," ","s","e","c","o","n","d","s">>]

\* run() taking a command that timed out for one that succeeded.
run_timeout_as_success(proc) ==
    IF proc.kind = "timeout"
    THEN [rc |-> 0, out |-> Empty, err |-> Empty]
    ELSE [rc |-> proc.returncode, out |-> proc.stdout, err |-> proc.stderr]

\* run(cmd, cwd, timeout): (returncode, stdout, stderr).  The outputs here
\* are shorter than the 4000 characters run keeps.
run(proc) ==
    IF proc.kind = "timeout"
    THEN [rc |-> TimeoutCode, out |-> Empty, err |-> <<"t","i","m","e","o","u","t",":"," ">> \o proc.exc]
    ELSE [rc |-> proc.returncode, out |-> proc.stdout, err |-> proc.stderr]

IsUpper(c) == c \in Range(Upper)

IsDigit(c) == c \in Range(Digits)

\* \w
IsWord(c) == IsUpper(c) \/ c \in Range(Lowers) \/ IsDigit(c) \/ c = "_"

\* Where \b([A-Z]{1,4}\d{3,4})\b matches in output: <<start, letters, digits>>.
RuleCodeMatches(output) ==
    {m \in (1..Len(output)) \X (1..4) \X (3..4) :
        /\ m[1] + m[2] + m[3] - 1 <= Len(output)
        /\ \A k \in 0..(m[2] - 1) : IsUpper(output[m[1] + k])
        /\ \A k \in 0..(m[3] - 1) : IsDigit(output[m[1] + m[2] + k])
        /\ m[1] = 1 \/ ~IsWord(output[m[1] - 1])
        /\ \/ m[1] + m[2] + m[3] - 1 = Len(output)
           \/ ~IsWord(output[m[1] + m[2] + m[3]])}

\* re.search(...).group(1): the leftmost match.
RuleCode(output) ==
    LET found == RuleCodeMatches(output)
        m == CHOOSE x \in found : \A y \in found : x[1] <= y[1]
    IN  SubSeq(output, m[1], m[1] + m[2] + m[3] - 1)

\* _signature_from_output(check_name, stdout, stderr, detail)
_signature_from_output(check_name, stdout, stderr, detail) ==
    LET output == stdout \o <<"\n">> \o stderr
    IN  IF check_name = <<"r","u","f","f">>
        THEN IF RuleCodeMatches(output) # {} THEN <<"r","u","f","f",":">> \o RuleCode(output)
             ELSE <<"r","u","f","f",":","f","a","i","l">>
        ELSE IF check_name = <<"p","y","t","e","s","t">> THEN <<"p","y","t","e","s","t",":","f","a","i","l">>
        ELSE IF check_name = <<"p","y","_","c","o","m","p","i","l","e","a","l","l">>
        THEN IF Contains(output, <<"S","y","n","t","a","x","E","r","r","o","r">>) THEN <<"c","o","m","p","i","l","e","a","l","l",":","S","y","n","t","a","x","E","r","r","o","r">>
             ELSE <<"c","o","m","p","i","l","e","a","l","l",":","f","a","i","l">>
        ELSE IF check_name = <<"n","p","m","_","t","e","s","t">> THEN <<"n","p","m","_","t","e","s","t",":","f","a","i","l">>
        ELSE IF check_name = <<"d","i","f","f","_","l","i","m","i","t">>
        THEN <<"d","i","f","f",":","l","i","m","i","t","_","e","x","c","e","e","d","e","d",":">> \o IntText(detail.delta)
        ELSE check_name \o <<":","f","a","i","l">>

\* _check_result(name, ok, detail, stdout, stderr).  The detail of the diff
\* check holds the delta (the line counts it is added up from are left
\* out), that of a command its return code.
_check_result(name, ok, detail, stdout, stderr) ==
    [name |-> name, ok |-> ok,
     signature |-> IF ok THEN Empty ELSE _signature_from_output(name, stdout, stderr, detail),
     detail |-> detail, stdout |-> stdout, stderr |-> stderr]

\* A command's check: ok when the return code is 0.
CommandCheck(name, proc) ==
    LET r == run(proc)
    IN  _check_result(name, r.rc = 0, [returncode |-> r.rc], r.out, r.err)

\* _detect_stack(root, changed_summary)
_detect_stack(tree, changed_summary) ==
    LET changed == Range(changed_summary.files)
        has_py_change == \E path \in changed : EndsWith(path, <<".","p","y">>)
        has_js_change == \E path \in changed :
            \E suffix \in {<<".","j","s">>, <<".","t","s">>, <<".","t","s","x">>, <<".","j","s","x">>} : EndsWith(path, suffix)
    IN  [is_python |-> Exists(tree, <<"p","y","p","r","o","j","e","c","t",".","t","o","m","l">>) \/ Exists(tree, <<"r","e","q","u","i","r","e","m","e","n","t","s",".","t","x","t">>)
                       \/ has_py_change,
         is_node |-> Exists(tree, <<"p","a","c","k","a","g","e",".","j","s","o","n">>) \/ has_js_change]

\* A gate that passes when any one check is ok.
quality_passed_any(checks) ==
    IF checks # <<>> THEN \E i \in 1..Len(checks) : checks[i].ok ELSE TRUE

\* passed = all(check["ok"] for check in checks) if checks else True
quality_passed(checks) ==
    IF checks # <<>> THEN \A i \in 1..Len(checks) : checks[i].ok ELSE TRUE

\* quality_checks(root, changed_summary, diff_limit=200).  tools is what
\* shutil.which finds; delta is what `git diff --numstat` adds up to; procs
\* is what each command does when it is run.
quality_checks(project, tree, changed_summary, delta, procs) ==
    LET stack == _detect_stack(tree, changed_summary)
        diff == IF git_present(tree)
                THEN <<_check_result(<<"d","i","f","f","_","l","i","m","i","t">>, delta <= DIFF_LIMIT, [delta |-> delta],
                                     Empty, Empty)>>
                ELSE <<>>
        ruff == IF "ruff" \in project.tools
                THEN <<CommandCheck(<<"r","u","f","f">>, procs.ruff)>> ELSE <<>>
        pytest == IF "pytest" \in project.tools
                     /\ (Exists(tree, <<"t","e","s","t","s">>) \/ Exists(tree, <<"t","e","s","t">>))
                  THEN <<CommandCheck(<<"p","y","t","e","s","t">>, procs.pytest)>> ELSE <<>>
        python == IF stack.is_python
                  THEN ruff \o pytest \o <<CommandCheck(<<"p","y","_","c","o","m","p","i","l","e","a","l","l">>, procs.py_compileall)>>
                  ELSE <<>>
        node == IF stack.is_node /\ Exists(tree, <<"p","a","c","k","a","g","e",".","j","s","o","n">>) /\ "npm" \in project.tools
                THEN <<CommandCheck(<<"n","p","m","_","t","e","s","t">>, procs.npm_test)>> ELSE <<>>
        checks == diff \o python \o node
    IN  [passed |-> quality_passed(checks), checks |-> checks]

\* The check the gate reports: the last one that failed.
_last_failed_check(checks) ==
    LET failed == SelectSeq(checks, LAMBDA check : ~check.ok)
    IN  IF failed = <<>> THEN <<>> ELSE <<failed[Len(failed)]>>

\* _first_failed_check(checks): <<>> for None.
_first_failed_check(checks) ==
    LET failed == SelectSeq(checks, LAMBDA check : ~check.ok)
    IN  IF failed = <<>> THEN <<>> ELSE <<failed[1]>>

\* _failure_guidance(failed_check)
_failure_guidance(name) ==
    IF name = <<"r","u","f","f">>
    THEN <<"R","e","s","o","l","v","e"," ","l","i","n","t"," ","v","i","o","l","a","t","i","o","n","s"," ","(","e","x","a","m","p","l","e",":"," ","u","n","u","s","e","d"," ","i","m","p","o","r","t","s",")"," ","a","n","d"," ","r","e","r","u","n"," ","BACKTICK","r","u","f","f"," ","c","h","e","c","k"," ",".","BACKTICK",".">>
    ELSE IF name = <<"p","y","t","e","s","t">> THEN <<"F","i","x"," ","f","a","i","l","i","n","g"," ","t","e","s","t","s"," ","a","n","d"," ","r","e","r","u","n"," ","BACKTICK","p","y","t","e","s","t"," ","-","q","BACKTICK",".">>
    ELSE IF name = <<"p","y","_","c","o","m","p","i","l","e","a","l","l">>
    THEN <<"F","i","x"," ","P","y","t","h","o","n"," ","s","y","n","t","a","x","/","t","y","p","e"," ","i","s","s","u","e","s"," ","a","n","d"," ","r","e","r","u","n"," ","c","o","m","p","i","l","e"," ","c","h","e","c","k",".">>
    ELSE IF name = <<"n","p","m","_","t","e","s","t">>
    THEN <<"F","i","x"," ","J","a","v","a","S","c","r","i","p","t","/","T","y","p","e","S","c","r","i","p","t"," ","t","e","s","t"," ","f","a","i","l","u","r","e","s"," ","a","n","d"," ","r","e","r","u","n"," ","n","p","m"," ","t","e","s","t","s",".">>
    ELSE IF name = <<"d","i","f","f","_","l","i","m","i","t">>
    THEN <<"S","p","l","i","t"," ","t","h","e"," ","c","h","a","n","g","e"," ","i","n","t","o"," ","s","m","a","l","l","e","r"," ","c","o","m","m","i","t","s"," ","u","n","d","e","r"," ","t","h","e"," ","d","i","f","f"," ","l","i","m","i","t",".">>
    ELSE <<"R","e","v","i","e","w"," ","t","h","e"," ","f","a","i","l","e","d"," ","q","u","a","l","i","t","y"," ","c","h","e","c","k"," ","o","u","t","p","u","t"," ","a","n","d"," ","a","p","p","l","y"," ","a"," ","m","i","n","i","m","a","l"," ","c","o","r","r","e","c","t","i","v","e"," ","p","a","t","c","h",".">>

\* _summarize_checks(checks)
_summarize_checks(checks) ==
    [i \in 1..Len(checks) |-> [name |-> checks[i].name, ok |-> checks[i].ok]]


\* ------------------------------------------------------------ the gate run
MaxGateRuns == 1

\* The locals of main() before anything is computed; timed_out is a
\* history field.
NoRun ==
    [candidate |-> <<>>, changed_summary |-> [count |-> 0, files |-> <<>>],
     snap |-> <<>>, passed |-> TRUE, checks |-> <<>>, signature |-> Empty,
     suggested_action |-> Empty, rollback_method |-> "none", timed_out |-> {}]

\* A guard that fails the re-entered invocation.
main_guard_failing(flag) ==
    IF flag THEN [skip |-> TRUE, skipped |-> "recursion_guard", code |-> 2]
    ELSE [skip |-> FALSE, skipped |-> "", code |-> 0]

\* The first lines of main(): with NEXUS_GATE_RUNNING set it prints the
\* skip marker and returns 0.
main_guard(flag) ==
    IF flag THEN [skip |-> TRUE, skipped |-> "recursion_guard", code |-> 0]
    ELSE [skip |-> FALSE, skipped |-> "", code |-> 0]

\* record_incident as it would be if it counted the incident as open only.
record_incident_not_counted(log, m, incident) ==
    [log |-> Append(log, incident),
     metrics |-> [m EXCEPT !.incidents_open = @ + 1]]

\* sm.record_incident(incident): the incident is appended to
\* incidents.jsonl and counted as total and as open.
record_incident(log, m, incident) ==
    [log |-> Append(log, incident),
     metrics |-> [m EXCEPT !.incidents_total = @ + 1, !.incidents_open = @ + 1]]

\* Metrics that count a rollback for every run.
gate_metrics_counting_every_run(m, passed, failed_check) ==
    [m EXCEPT !.runs = @ + 1, !.rollback_count = @ + 1]

\* Metrics that count the runs only.
gate_metrics_runs_only(m, passed, failed_check) ==
    [m EXCEPT !.runs = @ + 1]

\* Metrics that count the passing runs only.
gate_metrics_skipping_failed_runs(m, passed, failed_check) ==
    [m EXCEPT !.runs = IF passed THEN @ + 1 ELSE @,
              !.rollback_count = IF ~passed /\ failed_check # <<>> THEN @ + 1 ELSE @]

\* The metrics main() saves before the pattern is recorded; last_run,
\* last_result and last_failed_check, which nothing reads, are left out.
gate_metrics(m, passed, failed_check) ==
    [m EXCEPT !.runs = @ + 1,
              !.rollback_count = IF ~passed /\ failed_check # <<>> THEN @ + 1 ELSE @]

\* The observation main() records: its pattern type, signature, advice and
\* outcome.
gate_observation(passed, failed_check) ==
    IF passed
    THEN [pattern_type |-> <<"q","u","a","l","i","t","y","_","g","a","t","e","_","p","a","s","s">>,
          signature |-> <<"q","u","a","l","i","t","y","_","g","a","t","e",":","a","l","l","_","c","h","e","c","k","s","_","p","a","s","s","e","d">>,
          suggested_action |->
              <<"C","o","n","t","i","n","u","e"," ","i","m","p","l","e","m","e","n","t","a","t","i","o","n",";"," ","k","e","e","p"," ","c","h","a","n","g","e","s"," ","s","m","a","l","l"," ","a","n","d"," ","c","o","v","e","r","e","d"," ","b","y"," ","c","h","e","c","k","s",".">>,
          outcome |-> <<"s","u","c","c","e","s","s">>]
    ELSE [pattern_type |-> <<"q","u","a","l","i","t","y","_","g","a","t","e","_","f","a","i","l">>,
          signature |-> IF failed_check # <<>> THEN failed_check[1].signature
                        ELSE <<"q","u","a","l","i","t","y","_","g","a","t","e",":","u","n","k","n","o","w","n","_","f","a","i","l">>,
          suggested_action |-> _failure_guidance(IF failed_check # <<>>
                                                 THEN failed_check[1].name ELSE Empty),
          outcome |-> <<"f","a","i","l","u","r","e">>]

\* The incident main() builds after the rollback.  Its id, timestamp, tool
\* name, tool response and list of checks are left out.
gate_incident(failed_check, signature, candidate, rollback_method, suggested_action) ==
    [source |-> "quality_gate", rollback_method |-> rollback_method,
     suggested_action |-> suggested_action]
    @@ Incident(IF failed_check = <<>> THEN <<"q","u","a","l","i","t","y"," ","g","a","t","e"," ","f","a","i","l","u","r","e">>
                ELSE Or(failed_check[1].stderr,
                        Or(failed_check[1].stdout, <<"q","u","a","l","i","t","y"," ","g","a","t","e"," ","f","a","i","l","u","r","e">>)),
                signature,
                IF failed_check # <<>> THEN failed_check[1].name ELSE <<"u","n","k","n","o","w","n">>,
                IF failed_check # <<>> THEN failed_check[1].name
                ELSE <<"q","u","a","l","i","t","y","_","g","a","t","e","_","f","a","i","l","e","d">>,
                <<"/","w">>,
                IF candidate # <<>> THEN candidate[1] ELSE Empty,
                Empty, Empty, Empty)

\* ---- the roots the gate is run on ----
\* No version control, no marker, no tool.
PlainProject == [tools |-> {}, tracked |-> <<>>, index |-> <<>>]

PlainTree ==
    (<<"a","p","p",".","p","y">> :> File(Data(1))) @@ (<<"_","m","a","n","i","f","e","s","t",".","j","s","o","n">> :> File(Data(1)))

\* A Python project outside version control, with ruff and pytest.
PyProject == [tools |-> {"ruff", "pytest"}, tracked |-> <<>>, index |-> <<>>]

PyTree ==
    (<<"p","y","p","r","o","j","e","c","t",".","t","o","m","l">> :> File(Data(1))) @@ (<<"t","e","s","t","s">> :> Dir)
    @@ (<<"a","p","p",".","p","y">> :> File(Data(1))) @@ (<<"_","m","a","n","i","f","e","s","t",".","j","s","o","n">> :> File(Data(1)))

\* A git repository with Python and Node sources and every tool; app.py is
\* edited and ui.ts deleted in the working tree.
GitProject ==
    [tools |-> {"ruff", "pytest", "npm"},
     tracked |-> <<<<"a","p","p",".","p","y">>, <<"u","i",".","t","s">>>>,
     index |-> (<<"a","p","p",".","p","y">> :> Data(0)) @@ (<<"u","i",".","t","s">> :> Data(0))]

GitTree ==
    (<<".","g","i","t">> :> Dir) @@ (<<"p","y","p","r","o","j","e","c","t",".","t","o","m","l">> :> File(Data(1)))
    @@ (<<"p","a","c","k","a","g","e",".","j","s","o","n">> :> File(Data(1))) @@ (<<"t","e","s","t","s">> :> Dir)
    @@ (<<"a","p","p",".","p","y">> :> File(Data(1))) @@ (<<"u","i",".","t","s">> :> Missing)

\* A git repository with one more edited file than a summary keeps.
ManyFiles == SUMMARY_LIMIT + 1

NumberedPath(n) == <<"f">> \o (IF n < 10 THEN <<"0">> ELSE Empty) \o IntText(n) \o <<".","m","d">>

ManyProject ==
    [tools |-> {},
     tracked |-> [n \in 1..ManyFiles |-> NumberedPath(n)],
     index |-> [rel \in {NumberedPath(n) : n \in 1..ManyFiles} |-> Data(0)]]

ManyTree ==
    (<<".","g","i","t">> :> Dir)
    @@ [rel \in {NumberedPath(n) : n \in 1..ManyFiles} |-> File(Data(1))]

GateRoots ==
    {[project |-> PlainProject, tree |-> PlainTree],
     [project |-> PyProject, tree |-> PyTree],
     [project |-> GitProject, tree |-> GitTree],
     [project |-> ManyProject, tree |-> ManyTree]}

\* The file the event names, when it is in the root: none, a source file, a
\* file named like the manifest of a snapshot.
Candidates == {<<>>, <<<<"a","p","p",".","p","y">>>>, <<<<"_","m","a","n","i","f","e","s","t",".","j","s","o","n">>>>}

\* What the commands of the checks can do.
Passing == Exited(0, Empty, Empty)

AllPassing ==
    [ruff |-> Passing, pytest |-> Passing, py_compileall |-> Passing,
     npm_test |-> Passing]

RuffRule == Exited(1, <<"a",".","p","y",":","1",":","1",":"," ","F","4","0","1"," ","u","n","u","s","e","d">>, Empty)

RuffCrash == Exited(2, Empty, <<"e","r","r","o","r",":"," ","b","a","d"," ","c","o","n","f","i","g">>)

PytestFailed == Exited(1, <<"1"," ","f","a","i","l","e","d">>, Empty)

SyntaxFailed == Exited(1, <<"S","y","n","t","a","x","E","r","r","o","r",":"," ","i","n","v","a","l","i","d"," ","s","y","n","t","a","x">>, Empty)

NpmFailed == Exited(1, Empty, <<"n","p","m"," ","E","R","R","!"," ","T","e","s","t"," ","f","a","i","l","e","d">>)

\* What the checks of one run meet: the total of `git diff --numstat` when
\* there is a diff, and what each command does.  Every check failing alone,
\* in each of its ways, and several failing together.
CheckRuns ==
    {[delta |-> DIFF_LIMIT, procs |-> AllPassing],
     [delta |-> DIFF_LIMIT + 1, procs |-> AllPassing],
     [delta |-> DIFF_LIMIT, procs |-> [AllPassing EXCEPT !.ruff = RuffRule]],
     [delta |-> DIFF_LIMIT, procs |-> [AllPassing EXCEPT !.ruff = RuffCrash]],
     [delta |-> DIFF_LIMIT, procs |-> [AllPassing EXCEPT !.ruff = TimedOut]],
     [delta |-> DIFF_LIMIT, procs |-> [AllPassing EXCEPT !.pytest = PytestFailed]],
     [delta |-> DIFF_LIMIT, procs |-> [AllPassing EXCEPT !.pytest = TimedOut]],
     [delta |-> DIFF_LIMIT, procs |-> [AllPassing EXCEPT !.py_compileall = SyntaxFailed]],
     [delta |-> DIFF_LIMIT, procs |-> [AllPassing EXCEPT !.py_compileall = TimedOut]],
     [delta |-> DIFF_LIMIT, procs |-> [AllPassing EXCEPT !.npm_test = NpmFailed]],
     [delta |-> DIFF_LIMIT, procs |-> [AllPassing EXCEPT !.npm_test = TimedOut]],
     [delta |-> DIFF_LIMIT,
      procs |-> [AllPassing EXCEPT !.ruff = RuffRule, !.pytest = PytestFailed,
                                   !.npm_test = NpmFailed]],
     [delta |-> DIFF_LIMIT + 1,
      procs |-> [AllPassing EXCEPT !.ruff = RuffRule, !.py_compileall = SyntaxFailed]],
     [delta |-> DIFF_LIMIT,
      procs |-> [AllPassing EXCEPT !.pytest = TimedOut, !.py_compileall = SyntaxFailed]]}

\* The environments the gate runs in while a task is active: nothing set,
\* and auto-close switched on with a minimum of one pass.
GatePolicies == {DefaultPolicy, [auto_close |-> "1", min_passes |-> 1]}

InitGate ==
    /\ queue = <<>>
    /\ learning = _init_learning
    /\ metrics = _metrics_defaults
    /\ nextId = 1
    /\ nCalls = 0
    /\ added = <<>>
    /\ ret = [op |-> "none"]
    /\ pc = [p \in Procs |-> "idle"]
    /\ loc = [p \in Procs |-> NoLocals]
    /\ attemptedBy = [p \in Procs |-> {}]
    /\ overlap = FALSE
    /\ planIn = GatePytestIncident
    /\ planOut = NoPlan
    /\ \E started \in BOOLEAN :
        LET r == start_task(NoTask, <<>>, 0, 0, 1, <<"s","h","i","p">>)
        IN  /\ current_task = IF started THEN r.file ELSE NoTask
            /\ tasks_log = IF started THEN r.log ELSE <<>>
            /\ active_task = IF started THEN r.active_task ELSE 0
            /\ nextTaskId = IF started THEN 2 ELSE 1
            /\ policy \in IF started THEN GatePolicies ELSE {DefaultPolicy}
    /\ now = 0
    /\ nTaskCalls = 0
    /\ tret = [op |-> "none"]
    /\ pcall = [op |-> "none"]
    /\ nPatCalls = 0
    /\ FileIdle
    /\ gpc = "idle"
    /\ \E r \in GateRoots : root = r.project /\ fs = r.tree
    /\ grun = NoRun
    /\ incidents = <<>>
    /\ gret = [op |-> "none"]
    /\ nGateRuns = 0
    /\ NEXUS_GATE_RUNNING = FALSE
    /\ fs_at_capture = fs
    /\ HooksIdle

gateFrame == <<nCalls, ret, pc, loc, attemptedBy, overlap, planIn, planOut, now,
               policy, nextTaskId, nTaskCalls, psVars, smVars, root, hkVars>>

\* main() up to the snapshot: the guard lets the invocation in, the flag is
\* set, the changed files are summed up and captured.
GateEnter(candidate) ==
    /\ gpc = "idle"
    /\ nGateRuns < MaxGateRuns
    /\ Range(candidate) \subseteq DOMAIN fs
    /\ ~main_guard(NEXUS_GATE_RUNNING).skip
    /\ NEXUS_GATE_RUNNING' = TRUE
    /\ nGateRuns' = nGateRuns + 1
    /\ LET summary == changed_files_summary(git_present(fs), git_diff_names(root, fs),
                                            candidate)
       IN  grun' = [NoRun EXCEPT !.candidate = candidate,
                                 !.changed_summary = summary,
                                 !.snap = snapshot_files(fs, summary.files)]
    /\ fs_at_capture' = fs
    /\ gpc' = "captured"
    /\ gret' = [op |-> "entered"]
    /\ UNCHANGED <<gateFrame, queue, learning, metrics, nextId, added, current_task,
                   tasks_log, active_task, tret, fs, incidents>>

\* main() invoked with the flag set: by a command of a check, which
\* inherits the environment of the gate that runs it, while the checks run.
GateReenter ==
    LET guard == main_guard(NEXUS_GATE_RUNNING)
    IN  /\ gpc = "captured"
        /\ guard.skip
        /\ gret' = [op |-> "skipped", skipped |-> guard.skipped, code |-> guard.code]
        /\ UNCHANGED <<gateFrame, queue, learning, metrics, nextId, added, current_task,
                       tasks_log, active_task, tret, fs, incidents, gpc, grun,
                       nGateRuns, NEXUS_GATE_RUNNING, fs_at_capture>>

\* The file the event names is written or deleted between the capture and
\* the checks.
WriteFile(rel, content) ==
    /\ gpc = "captured"
    /\ rel \in Range(grun.candidate)
    /\ fs' = (rel :> content) @@ fs
    /\ UNCHANGED <<queue, learning, metrics, nextId, nCalls, added, ret, pc, loc,
                   attemptedBy, overlap, planIn, planOut, tmVars, psVars, smVars,
                   gpc, root, grun, incidents, gret, nGateRuns, NEXUS_GATE_RUNNING,
                   fs_at_capture, hkVars>>

\* History of a run: the names of the checks whose command ran into the
\* timeout.
TimedOutChecks(checks, procs) ==
    {checks[i].name : i \in {j \in 1..Len(checks) :
        \/ checks[j].name = <<"r","u","f","f">> /\ procs.ruff = TimedOut
        \/ checks[j].name = <<"p","y","t","e","s","t">> /\ procs.pytest = TimedOut
        \/ checks[j].name = <<"p","y","_","c","o","m","p","i","l","e","a","l","l">> /\ procs.py_compileall = TimedOut
        \/ checks[j].name = <<"n","p","m","_","t","e","s","t">> /\ procs.npm_test = TimedOut}}

\* passed, checks = quality_checks(root, changed_summary, diff_limit=200)
GateQualityChecks(met) ==
    /\ gpc = "captured"
    /\ LET r == quality_checks(root, fs, grun.changed_summary,
                               IF git_diff_names(root, fs) = <<>> THEN 0 ELSE met.delta,
                               met.procs)
       IN  grun' = [grun EXCEPT !.passed = r.passed, !.checks = r.checks,
                                !.timed_out = TimedOutChecks(r.checks, met.procs)]
    /\ gpc' = "checked"
    /\ UNCHANGED <<gateFrame, queue, learning, metrics, nextId, added, current_task,
                   tasks_log, active_task, tret, fs, incidents, gret, nGateRuns,
                   NEXUS_GATE_RUNNING, fs_at_capture>>

\* main() from the metrics to the report to the task manager; a passing run
\* then prints its result and returns 0, and its process is gone.
GateRecord ==
    /\ gpc = "checked"
    /\ LET failed_check == _first_failed_check(grun.checks)
           saved == gate_metrics(metrics, grun.passed, failed_check)
           obs == gate_observation(grun.passed, failed_check)
           example == [changed_files |-> grun.changed_summary.count,
                       rollback_count_before |-> metrics.rollback_count,
                       rollback_count_after |-> saved.rollback_count]
           pass == record_quality_gate_pass(current_task, tasks_log, saved, active_task,
                                            now, policy, _summarize_checks(grun.checks))
           fail == record_quality_gate_fail(current_task, now, obs.signature)
       IN  /\ learning' = add_pattern(learning, obs.pattern_type, obs.signature,
                                      <<example>>, obs.suggested_action,
                                      <<<<"p","y","t","h","o","n","3">>, <<"q","u","a","l","i","t","y","_","g","a","t","e",".","p","y">>>>, obs.outcome,
                                      [changed_files_count |-> grun.changed_summary.count])
           /\ IF grun.passed
              THEN /\ current_task' = pass.file
                   /\ tasks_log' = pass.log
                   /\ metrics' = pass.metrics
                   /\ active_task' = pass.active_task
                   /\ tret' = [op |-> "pass", result |-> pass.result]
                   /\ gpc' = "idle"
                   /\ NEXUS_GATE_RUNNING' = FALSE
                   /\ grun' = NoRun
                   /\ gret' = [op |-> "main", passed |-> TRUE, code |-> 0]
              ELSE /\ current_task' = fail.file
                   /\ metrics' = saved
                   /\ tret' = [op |-> "fail", result |-> fail.result,
                               signature |-> obs.signature]
                   /\ gpc' = "failed"
                   /\ grun' = [grun EXCEPT !.signature = obs.signature,
                                           !.suggested_action = obs.suggested_action]
                   /\ UNCHANGED <<tasks_log, active_task, NEXUS_GATE_RUNNING, gret>>
    /\ UNCHANGED <<gateFrame, queue, nextId, added, fs, incidents, nGateRuns,
                   fs_at_capture>>

\* rollback_method = rollback(root, snap)
GateRollback ==
    /\ gpc = "failed"
    /\ LET r == rollback(root, fs, grun.snap)
       IN  /\ fs' = r.tree
           /\ grun' = [grun EXCEPT !.rollback_method = r.method]
    /\ gpc' = "rolled_back"
    /\ UNCHANGED <<gateFrame, queue, learning, metrics, nextId, added, current_task,
                   tasks_log, active_task, tret, incidents, gret, nGateRuns,
                   NEXUS_GATE_RUNNING, fs_at_capture>>

\* The end of a failing main(): the incident is recorded, the fix task
\* queued, the result printed and 2 returned.  Of what is printed the
\* summary of the checks, the incident id and the times are left out.
GateEmit ==
    /\ gpc = "rolled_back"
    /\ LET failed_check == _first_failed_check(grun.checks)
           incident == gate_incident(failed_check, grun.signature, grun.candidate,
                                     grun.rollback_method, grun.suggested_action)
           recorded == record_incident(incidents, metrics, incident)
           plan == _incident_to_fix_plan(incident, ProcessCwd)
       IN  /\ incidents' = recorded.log
           /\ metrics' = recorded.metrics
           /\ queue' = add_fix_task(queue, nextId, incident, plan.suggested_fix,
                                    plan.verify_cmd)
           /\ added' = Append(added, [id |-> nextId, incident |-> incident,
                                      suggested_fix |-> plan.suggested_fix,
                                      verify_cmd |-> plan.verify_cmd])
           /\ gret' = [op |-> "main", passed |-> FALSE, code |-> 2,
                       rolled_back |-> TRUE, rollback_method |-> grun.rollback_method,
                       failed_signature |-> grun.signature, fix_task_id |-> nextId]
    /\ nextId' = nextId + 1
    /\ gpc' = "idle"
    /\ NEXUS_GATE_RUNNING' = FALSE
    /\ grun' = NoRun
    /\ UNCHANGED <<gateFrame, learning, current_task, tasks_log, active_task, tret,
                   fs, nGateRuns, fs_at_capture>>

NextGate ==
    \/ \E candidate \in Candidates : GateEnter(candidate)
    \/ GateReenter
    \/ \E rel \in Range(grun.candidate), content \in {File(Data(2)), Missing} :
          WriteFile(rel, content)
    \/ \E met \in CheckRuns : GateQualityChecks(met)
    \/ GateRecord
    \/ GateRollback
    \/ GateEmit

\* The quality gate under every sequence of runs, edits and check outcomes.
SpecGate == InitGate /\ [][NextGate]_vars


\* ---- Properties of the quality gate (SpecGate) ----

\* A step in which main() returns from a run that was not skipped.
GateReturns == gpc # "idle" /\ gpc' = "idle"

\* C23: a gate run passes if and only if every check that ran is ok, so it
\* passes when no check ran; and a run that was not skipped returns 0
\* exactly when it passed and 2 exactly when it failed.
C23_PassIffAllChecksOk ==
    /\ [](gpc \in {"checked", "failed", "rolled_back"} =>
            (grun.passed <=> \A i \in 1..Len(grun.checks) : grun.checks[i].ok))
    /\ [][GateReturns =>
            /\ gret'.op = "main"
            /\ gret'.passed = grun.passed
            /\ gret'.code = 0 <=> grun.passed
            /\ gret'.code = 2 <=> ~grun.passed]_vars

\* Checks have been evaluated, some ok and one not, and the run has failed.
C23_Witness ==
    /\ gpc = "checked"
    /\ ~grun.passed
    /\ \E i \in 1..Len(grun.checks) : grun.checks[i].ok
    /\ \E i \in 1..Len(grun.checks) : ~grun.checks[i].ok

\* No check ran and the run has passed.
C23_WitnessNoChecks ==
    gpc = "checked" /\ grun.checks = <<>> /\ grun.passed


\* main() records the metrics, the observation and the report to the task
\* manager of a failing run.
FailRecordStep == gpc = "checked" /\ ~grun.passed

\* The incident and the fix task of a failing run are written.
EmitStep == gpc = "rolled_back"

\* What a failing run does between the checks and the rollback.
FailureIsRecorded ==
    FailRecordStep =>
        /\ gpc' = "failed"
        /\ TypeCounter(learning', <<"q","u","a","l","i","t","y","_","g","a","t","e","_","f","a","i","l">>, "total_count")
             = TypeCounter(learning, <<"q","u","a","l","i","t","y","_","g","a","t","e","_","f","a","i","l">>, "total_count") + 1
        /\ TypeCounter(learning', <<"q","u","a","l","i","t","y","_","g","a","t","e","_","p","a","s","s">>, "total_count")
             = TypeCounter(learning, <<"q","u","a","l","i","t","y","_","g","a","t","e","_","p","a","s","s">>, "total_count")
        /\ DOMAIN learning'.patterns = DOMAIN learning.patterns \cup {<<"q","u","a","l","i","t","y","_","g","a","t","e","_","f","a","i","l">>}
        /\ metrics'.rollback_count = metrics.rollback_count + 1
        /\ tret'.op = "fail"
        /\ tret'.signature = grun'.signature
        /\ _load_current_task(current_task) # NoTask =>
              /\ tret'.result = "task"
              /\ current_task'[1].last_quality_gate_fail_at = now
              /\ Len(current_task'[1].notes) > 0
        /\ UNCHANGED <<incidents, queue, fs>>

\* The rollback comes next, before any incident or fix task.
RollbackComesFirst ==
    gpc = "failed" =>
        \/ UNCHANGED vars
        \/ /\ gpc' = "rolled_back"
           /\ grun'.rollback_method \in {"git_checkout", "snapshot_restore"}
           /\ fs' = rollback(root, fs, grun.snap).tree
           /\ UNCHANGED <<incidents, queue, learning, metrics>>

\* Then one incident and one pending fix task embedding it, and code 2.
FailureIsEmitted ==
    EmitStep =>
        /\ Len(incidents') = Len(incidents) + 1
        /\ IsPrefix(incidents, incidents')
        /\ Len(queue') = Len(queue) + 1
        /\ IsPrefix(queue, queue')
        /\ queue'[Len(queue')].status = "pending"
        /\ queue'[Len(queue')].incident = incidents'[Len(incidents')]
        /\ incidents'[Len(incidents')].rollback_method = grun.rollback_method
        /\ gret'.op = "main"
        /\ gret'.code = 2
        /\ gret'.rolled_back
        /\ gpc' = "idle"
        /\ metrics'.rollback_count = metrics.rollback_count
        /\ UNCHANGED <<learning, current_task, tret, fs>>

\* Nothing else writes an incident, a fix task or a failure observation, or
\* counts a rollback.
OnlyFailingRunsEmit ==
    /\ (incidents' # incidents \/ queue' # queue) => EmitStep
    /\ (\/ metrics'.rollback_count # metrics.rollback_count
        \/ TypeCounter(learning', <<"q","u","a","l","i","t","y","_","g","a","t","e","_","f","a","i","l">>, "total_count")
             # TypeCounter(learning, <<"q","u","a","l","i","t","y","_","g","a","t","e","_","f","a","i","l">>, "total_count"))
       => FailRecordStep

\* C24: every failing gate run performs a rollback and then writes exactly
\* one incident; it records exactly one observation under quality_gate_fail,
\* queues exactly one pending fix task embedding that incident, adds exactly
\* 1 to rollback_count, reports the failure to the task manager and returns
\* 2.
C24_FailingRunEmitsOnce ==
    [][/\ FailureIsRecorded
       /\ RollbackComesFirst
       /\ FailureIsEmitted
       /\ OnlyFailingRunsEmit]_vars

\* A failing run has returned: rolled back, with its incident and its fix
\* task written and its failure noted in the active task.
C24_Witness ==
    /\ gret.op = "main"
    /\ gret.code = 2
    /\ gret.rollback_method = "snapshot_restore"
    /\ Len(incidents) = 1
    /\ Len(queue) = 1
    /\ metrics.rollback_count = 1
    /\ current_task # NoTask
    /\ Len(current_task[1].notes) = 1


\* The order the checks are evaluated in.
CheckOrder == <<<<"d","i","f","f","_","l","i","m","i","t">>, <<"r","u","f","f">>, <<"p","y","t","e","s","t">>, <<"p","y","_","c","o","m","p","i","l","e","a","l","l">>, <<"n","p","m","_","t","e","s","t">>>>

OrderOf(name) == CHOOSE k \in 1..Len(CheckOrder) : CheckOrder[k] = name

\* The failing check that comes first in the list of checks.
FirstFailing(checks) ==
    checks[CHOOSE i \in 1..Len(checks) :
              ~checks[i].ok /\ \A j \in 1..(i - 1) : checks[j].ok]

\* The checks are listed in check order, and a check has an empty signature
\* exactly when it is ok.
ChecksAreOrderedAndSigned ==
    gpc \in {"checked", "failed", "rolled_back"} =>
        /\ \A i \in 1..Len(grun.checks) : grun.checks[i].name \in Range(CheckOrder)
        /\ \A i, j \in 1..Len(grun.checks) :
              i < j => OrderOf(grun.checks[i].name) < OrderOf(grun.checks[j].name)
        /\ \A i \in 1..Len(grun.checks) :
              grun.checks[i].ok <=> grun.checks[i].signature = Empty

\* The observation of a failing run is counted under the signature of the
\* first failing check.
FailureObservedUnderFirst ==
    FailRecordStep =>
        LET first == FirstFailing(grun.checks)
        IN  /\ grun'.signature = first.signature
            /\ SignatureCounter(learning', <<"q","u","a","l","i","t","y","_","g","a","t","e","_","f","a","i","l">>, first.signature, "count")
                 = SignatureCounter(learning, <<"q","u","a","l","i","t","y","_","g","a","t","e","_","f","a","i","l">>, first.signature,
                                    "count") + 1

\* The incident and the printed result carry it too, and the incident's
\* class is the name of that check.
FailureEmittedUnderFirst ==
    EmitStep =>
        LET first == FirstFailing(grun.checks)
            incident == incidents'[Len(incidents')]
        IN  /\ incident.signature = first.signature
            /\ incident.incident_class = first.name
            /\ incident.failed_check = first.name
            /\ gret'.failed_signature = first.signature

\* C25: when several checks fail in one run, the incident, the
\* quality_gate_fail observation and the reported failed_signature carry
\* the signature of the first failing check in check order (diff_limit,
\* ruff, pytest, py_compileall, npm_test), the incident's class is that
\* check's name, and the signature of a failing check is never empty.
C25_FirstFailingCheckNamesTheFailure ==
    /\ []ChecksAreOrderedAndSigned
    /\ [][FailureObservedUnderFirst /\ FailureEmittedUnderFirst]_vars

\* ruff, pytest and npm test have failed together and the run is rolled
\* back under the signature of ruff's rule.
C25_Witness ==
    /\ gpc = "rolled_back"
    /\ Len(SelectSeq(grun.checks, LAMBDA check : ~check.ok)) = 3
    /\ grun.checks[1].ok
    /\ grun.signature = <<"r","u","f","f",":","F","4","0","1">>


\* main() records the metrics, the observation and the report to the task
\* manager of a passing run, and returns.
PassRecordStep == gpc = "checked" /\ grun.passed

\* C26: a passing gate run records exactly one observation under
\* quality_gate_pass and reports the pass to the task manager; it performs
\* no rollback, writes no incident, queues no fix task, and leaves
\* rollback_count, incidents_total and incidents_open as they were.
C26_PassingRunOnlyObserves ==
    [][PassRecordStep =>
          /\ TypeCounter(learning', <<"q","u","a","l","i","t","y","_","g","a","t","e","_","p","a","s","s">>, "total_count")
               = TypeCounter(learning, <<"q","u","a","l","i","t","y","_","g","a","t","e","_","p","a","s","s">>, "total_count") + 1
          /\ SignatureCounter(learning', <<"q","u","a","l","i","t","y","_","g","a","t","e","_","p","a","s","s">>,
                              <<"q","u","a","l","i","t","y","_","g","a","t","e",":","a","l","l","_","c","h","e","c","k","s","_","p","a","s","s","e","d">>, "count")
               = SignatureCounter(learning, <<"q","u","a","l","i","t","y","_","g","a","t","e","_","p","a","s","s">>,
                                  <<"q","u","a","l","i","t","y","_","g","a","t","e",":","a","l","l","_","c","h","e","c","k","s","_","p","a","s","s","e","d">>, "count") + 1
          /\ TypeCounter(learning', <<"q","u","a","l","i","t","y","_","g","a","t","e","_","f","a","i","l">>, "total_count")
               = TypeCounter(learning, <<"q","u","a","l","i","t","y","_","g","a","t","e","_","f","a","i","l">>, "total_count")
          /\ DOMAIN learning'.patterns = DOMAIN learning.patterns \cup {<<"q","u","a","l","i","t","y","_","g","a","t","e","_","p","a","s","s">>}
          /\ tret'.op = "pass"
          /\ _load_current_task(current_task) # NoTask =>
                /\ tret'.result \in {"task", "closed"}
                /\ metrics'.task_progress_events = metrics.task_progress_events + 1
          /\ gret'.op = "main" /\ gret'.passed /\ gret'.code = 0
          /\ gpc' = "idle"
          /\ metrics'.rollback_count = metrics.rollback_count
          /\ metrics'.incidents_total = metrics.incidents_total
          /\ metrics'.incidents_open = metrics.incidents_open
          /\ UNCHANGED <<fs, incidents, queue>>]_vars

\* A passing run has returned with its observation recorded and its pass
\* counted in the active task; nothing was rolled back or queued.
C26_Witness ==
    /\ gret.op = "main"
    /\ gret.code = 0
    /\ TypeCounter(learning, <<"q","u","a","l","i","t","y","_","g","a","t","e","_","p","a","s","s">>, "total_count") = 1
    /\ current_task # NoTask
    /\ current_task[1].progress_events = 1
    /\ incidents = <<>>
    /\ queue = <<>>
    /\ metrics.rollback_count = 0


\* A passing run has closed the active task under the auto-close policy.
C26_WitnessAutoClose ==
    /\ gret.op = "main"
    /\ gret.code = 0
    /\ tret.op = "pass"
    /\ tret.result = "closed"
    /\ metrics.tasks_completed = 1
    /\ metrics.rollback_count = 0


\* The changed paths of a run that starts now on the event's candidate: what
\* git reports and the file the event names, each once.
ChangedPaths(candidate) ==
    Unique((IF git_present(fs) THEN git_diff_names(root, fs) ELSE <<>>) \o candidate, {})

\* The regular files among the first SNAPSHOT_LIMIT changed paths.
FilesToCapture(candidate) ==
    LET changed == ChangedPaths(candidate)
    IN  {rel \in Range(SubSeq(changed, 1, Min(SNAPSHOT_LIMIT, Len(changed)))) :
            At(fs, rel).kind = "file"}

\* The step of main() that takes the snapshot.
CaptureStep == gpc = "idle" /\ gpc' = "captured"

\* C27: in every gate run, before any check is evaluated a snapshot has
\* been captured that holds every existing regular file among the run's
\* changed paths, up to the first 200 of them, and whose manifest lists
\* exactly the captured files.
C27_SnapshotHoldsChangedFiles ==
    [][/\ CaptureStep =>
            LET expected == FilesToCapture(grun'.candidate)
                snap == grun'.snap
            IN  /\ ManifestName \in DOMAIN snap
                /\ Range(snap[ManifestName].files) = expected
                /\ \A rel \in expected :
                      rel \in DOMAIN snap /\ snap[rel] = fs[rel].content
       /\ (gpc # "checked" /\ gpc' = "checked") =>
            gpc = "captured" /\ ManifestName \in DOMAIN grun.snap]_vars

\* A snapshot has been taken of a root with more changed files than a
\* summary keeps.
C27_ManyFilesCaptured ==
    gpc = "captured" /\ grun.changed_summary.count > SUMMARY_LIMIT


\* The step of main() that rolls the working tree back.
RollbackStep == gpc = "failed" /\ gpc' = "rolled_back"

\* The files the manifest of the run's snapshot lists.
Manifested == Range(grun.snap[ManifestName].files)

\* C28: when the root is not under version control, a rollback leaves every
\* file listed in the snapshot manifest with exactly the content it had at
\* capture time, whatever was written to it between capture and rollback,
\* and reports the method snapshot_restore; applying the restore a second
\* time changes nothing.
C28_RestoreIsByteForByte ==
    [][(RollbackStep /\ ~git_present(fs)) =>
          /\ \A rel \in Manifested : fs'[rel] = fs_at_capture[rel]
          /\ grun'.rollback_method = "snapshot_restore"
          /\ rollback(root, fs', grun.snap).tree = fs']_vars

\* A file of the manifest was written or deleted after the capture and the
\* run has been rolled back without version control.
C28_RestoredAfterWrite ==
    /\ gpc = "rolled_back"
    /\ grun.rollback_method = "snapshot_restore"
    /\ \E rel \in Manifested : rel # ManifestName


\* main() is invoked while the flag is set.
SkippedStep == NEXUS_GATE_RUNNING /\ gret' # gret /\ gpc' = gpc

\* C29: a gate invocation made while the process-wide running flag is set
\* returns at once with the skipped result and code 0 and has no side
\* effect: no snapshot, no check, no change to the metrics, the patterns,
\* the incidents, the fix queue or the task records.
C29_ReentrySkipsWithoutEffect ==
    [][SkippedStep =>
          /\ gret'.op = "skipped"
          /\ gret'.skipped = "recursion_guard"
          /\ gret'.code = 0
          /\ UNCHANGED <<grun, fs, metrics, learning, incidents, queue, current_task,
                         tasks_log, active_task, nGateRuns, NEXUS_GATE_RUNNING>>]_vars

\* An invocation has been skipped while the checks of a run were under way.
C29_Witness ==
    /\ gret.op = "skipped"
    /\ NEXUS_GATE_RUNNING
    /\ gpc = "captured"
    /\ nGateRuns = 1


\* A check whose command timed out is in the list of checks as a failed
\* check: return code TimeoutCode, the timeout in its stderr, a signature;
\* and the run has not passed.
TimeoutIsAFailedCheck ==
    gpc \in {"checked", "failed", "rolled_back"} =>
        \A name \in grun.timed_out :
            /\ ~grun.passed
            /\ \E i \in 1..Len(grun.checks) :
                  /\ grun.checks[i].name = name
                  /\ ~grun.checks[i].ok
                  /\ grun.checks[i].detail.returncode = TimeoutCode
                  /\ grun.checks[i].stdout = Empty
                  /\ IsPrefix(<<"t","i","m","e","o","u","t",":"," ">>, grun.checks[i].stderr)
                  /\ grun.checks[i].signature # Empty

\* Such a run ends as a failing run does: rolled back, with an incident
\* written, returning 2.
TimeoutFailsTheRun ==
    (GateReturns /\ grun.timed_out # {}) =>
        /\ gret'.op = "main"
        /\ ~gret'.passed
        /\ gret'.code = 2
        /\ gret'.rolled_back
        /\ grun.rollback_method \in {"git_checkout", "snapshot_restore"}
        /\ Len(incidents') = Len(incidents) + 1
        /\ Len(queue') = Len(queue) + 1

BufferChecks == {<<[name |-> "pytest", ok |-> TRUE]>>, <<[name |-> "ruff", ok |-> TRUE]>>}

BufferSignatures == {<<"p","y","t","e","s","t",":","f","a","i","l">>, <<"r","u","f","f",":","F","4","0","1">>}

\* The k-th report of a sequence that alternates between the two.
NthChecks(k) ==
    IF k % 2 = 0 THEN <<[name |-> "pytest", ok |-> TRUE]>>
    ELSE <<[name |-> "ruff", ok |-> TRUE]>>

NthSignature(k) == IF k % 2 = 0 THEN <<"p","y","t","e","s","t",":","f","a","i","l">> ELSE <<"r","u","f","f",":","F","4","0","1">>

\* The stores after `nexus task start ship` at time 0.
StartedStores ==
    [file |-> start_task(NoTask, <<>>, 0, 0, 1, <<"s","h","i","p">>).file,
     log |-> start_task(NoTask, <<>>, 0, 0, 1, <<"s","h","i","p">>).log,
     metrics |-> _metrics_defaults,
     active_task |-> 1]

\* The stores after one more record_quality_gate_pass with auto-close off.
AfterPass(s, checks) ==
    [file |-> record_quality_gate_pass(s.file, s.log, s.metrics, s.active_task, 0,
                                       DefaultPolicy, checks).file,
     log |-> record_quality_gate_pass(s.file, s.log, s.metrics, s.active_task, 0,
                                      DefaultPolicy, checks).log,
     metrics |-> record_quality_gate_pass(s.file, s.log, s.metrics, s.active_task, 0,
                                          DefaultPolicy, checks).metrics,
     active_task |-> s.active_task]

\* The stores after one more record_quality_gate_fail.
AfterFail(s, signature) ==
    [s EXCEPT !.file = record_quality_gate_fail(s.file, 0, signature).file]

\* The stores after k passes, and after k failures, reported in turn.
RECURSIVE PassedTimes(_, _)
PassedTimes(s, k) ==
    IF k = 0 THEN s ELSE AfterPass(PassedTimes(s, k - 1), NthChecks(k))

RECURSIVE FailedTimes(_, _)
FailedTimes(s, k) ==
    IF k = 0 THEN s ELSE AfterFail(FailedTimes(s, k - 1), NthSignature(k))

\* How many passes and failures the task has seen when the model starts:
\* none, one short of each limit, each limit.
Histories ==
    {[passes |-> 0, fails |-> 0],
     [passes |-> RECENT_CHECKS_LIMIT - 1, fails |-> NOTES_LIMIT - 1],
     [passes |-> RECENT_CHECKS_LIMIT, fails |-> NOTES_LIMIT]}

InitBuffers ==
    /\ queue = <<>>
    /\ learning = _init_learning
    /\ nextId = 1
    /\ nCalls = 0
    /\ added = <<>>
    /\ ret = [op |-> "none"]
    /\ pc = [p \in Procs |-> "idle"]
    /\ loc = [p \in Procs |-> NoLocals]
    /\ attemptedBy = [p \in Procs |-> {}]
    /\ overlap = FALSE
    /\ planIn = GatePytestIncident
    /\ planOut = NoPlan
    /\ \E h \in Histories :
        LET s == FailedTimes(PassedTimes(StartedStores, h.passes), h.fails)
        IN  /\ current_task = s.file
            /\ tasks_log = s.log
            /\ metrics = s.metrics
            /\ active_task = s.active_task
    /\ now = 0
    /\ policy \in Policies
    /\ nextTaskId = 2
    /\ nTaskCalls = 0
    /\ tret = [op |-> "none"]
    /\ pcall = [op |-> "none"]
    /\ nPatCalls = 0
    /\ FileIdle
    /\ GateIdle
    /\ HooksIdle

NextBuffers ==
    \/ \E goal \in Goals : StartTask(goal)
    \/ \E success \in BOOLEAN, note \in CloseNotes : CloseTask(success, note)
    \/ \E checks \in BufferChecks : GatePass(checks)
    \/ \E signature \in BufferSignatures : GateFail(signature)

\* The task manager on a task that has seen many gate reports.
SpecBuffers == InitBuffers /\ [][NextBuffers]_vars

\* ---- Properties of the buffers of a task (SpecBuffers) ----

\* The buffer new is the buffer old with entry appended and cut to its
\* last limit entries: the oldest are gone, the rest keep their order.
AppendedAndCut(old, new, entry, limit) ==
    /\ Len(new) = Min(Len(old) + 1, limit)
    /\ new[Len(new)] = entry
    /\ \A i \in 1..(Len(new) - 1) : new[i] = old[i + (Len(old) + 1 - Len(new))]

\* No buffer of the current task is over its limit.
BuffersBounded ==
    current_task # NoTask =>
        /\ Len(current_task[1].recent_checks) <= RECENT_CHECKS_LIMIT
        /\ Len(current_task[1].notes) <= NOTES_LIMIT

\* A pass reported to an active task appends its checks to recent_checks
\* and cuts the buffer to the newest ten; the notes stay.
PassFillsRecentChecks ==
    (tret'.op = "pass" /\ tret'.result # "none" /\ nTaskCalls' = nTaskCalls + 1) =>
        /\ current_task # NoTask
        /\ \E checks \in BufferChecks :
              AppendedAndCut(current_task[1].recent_checks, tret'.task.recent_checks,
                             checks, RECENT_CHECKS_LIMIT)
        /\ tret'.task.notes = current_task[1].notes

\* A failure reported to an active task appends its note and cuts the notes
\* to the newest twenty; status, progress_events and recent_checks stay.
FailFillsNotes ==
    (tret'.op = "fail" /\ tret'.result # "none" /\ nTaskCalls' = nTaskCalls + 1) =>
        /\ current_task # NoTask /\ current_task' # NoTask
        /\ \E signature \in BufferSignatures :
              AppendedAndCut(current_task[1].notes, current_task'[1].notes,
                             <<"q","u","a","l","i","t","y","_","g","a","t","e","_","f","a","i","l",":">> \o signature, NOTES_LIMIT)
        /\ current_task'[1].status = current_task[1].status
        /\ current_task'[1].progress_events = current_task[1].progress_events
        /\ current_task'[1].recent_checks = current_task[1].recent_checks
        /\ current_task'[1].id = current_task[1].id
        /\ UNCHANGED <<tasks_log, metrics, active_task>>

\* A failure reported while no task is active changes no store.
FailWithoutTask ==
    (tret'.op = "fail" /\ tret'.result = "none") =>
        /\ _load_current_task(current_task) = NoTask
        /\ UNCHANGED <<current_task, tasks_log, metrics, active_task, queue, learning>>

\* C34: recent_checks never holds more than 10 records and notes never more
\* than 20; over the limit the oldest entries go and the newest stay in
\* order; a reported failure changes nothing without an active task and,
\* with one, leaves its status and progress_events alone.
C34_BuffersAreBoundedRings ==
    /\ []BuffersBounded
    /\ [][PassFillsRecentChecks /\ FailFillsNotes /\ FailWithoutTask]_vars

\* Both buffers are full and have dropped entries: the last three entries
\* of each can only be three reports made after the alternating history.
C34_Witness ==
    /\ current_task # NoTask
    /\ tret.op \in {"pass", "fail"}
    /\ Len(current_task[1].notes) = NOTES_LIMIT
    /\ Len(current_task[1].recent_checks) = RECENT_CHECKS_LIMIT
    /\ current_task[1].notes[NOTES_LIMIT] = current_task[1].notes[NOTES_LIMIT - 1]
    /\ current_task[1].notes[NOTES_LIMIT - 1] = current_task[1].notes[NOTES_LIMIT - 2]
    /\ current_task[1].recent_checks[RECENT_CHECKS_LIMIT]
           = current_task[1].recent_checks[RECENT_CHECKS_LIMIT - 1]
    /\ current_task[1].recent_checks[RECENT_CHECKS_LIMIT - 1]
           = current_task[1].recent_checks[RECENT_CHECKS_LIMIT - 2]


\* ---- Properties of repeated process_one_task invocations (SpecConc) ----

\* No task has been moved to attempted more than once.
AttemptedAtMostOnce ==
    /\ \A i \in 1..Len(queue) : queue[i].attempts \in {0, 1}
    /\ \A p \in Procs : \A q \in Procs \ {p} : attemptedBy[p] \cap attemptedBy[q] = {}

\* A task that is completed or failed stays as it is.
FinishedTasksStay ==
    \A i \in 1..Len(queue) :
        queue[i].status \in {"completed", "failed"} =>
            /\ i <= Len(queue')
            /\ queue'[i] = queue[i]

\* The task an invocation selects is the first pending task of the queue.
SelectsFirstPending ==
    \A p \in Procs :
        (pc[p] = "idle" /\ pc'[p] = "load_attempted") =>
            \E i \in 1..Len(queue) :
                /\ queue[i].id = loc'[p].task_id
                /\ queue[i].status = "pending"
                /\ \A j \in 1..(i - 1) : queue[j].status # "pending"

\* C35: with the queue changed only by add_fix_task and process_one_task,
\* every task is attempted at most once: attempts is 0 or 1, a completed or
\* failed task is never selected or changed again, and an invocation after
\* a failure works on the next pending task.
C35_TasksAttemptedAtMostOnce ==
    /\ []AttemptedAtMostOnce
    /\ [][FinishedTasksStay /\ SelectsFirstPending]_vars

\* C35, for invocations that run one after the other: each ends before the
\* next begins.
C35_TasksAttemptedOnceWhenSerialized ==
    /\ [](~overlap => AttemptedAtMostOnce)
    /\ [][~overlap' => (FinishedTasksStay /\ SelectsFirstPending)]_vars

\* After an invocation whose verify command failed, a second invocation has
\* worked on the next task; each task was attempted once.
C35_Witness ==
    /\ ~overlap
    /\ \A p \in Procs : pc[p] = "done"
    /\ Len(queue) = 2
    /\ queue[1].status = "failed" /\ queue[1].attempts = 1
    /\ queue[2].status \in {"completed", "failed"} /\ queue[2].attempts = 1


\* ---- Properties of the task counters (SpecTasks) ----

\* The positions of the task_closed events of tasks.jsonl whose task ended
\* with one of the given statuses.
ClosedEvents(statuses) ==
    {k \in DOMAIN tasks_log :
        /\ tasks_log[k].event = "task_closed"
        /\ tasks_log[k].task.status \in statuses}

\* C38: tasks_completed is tasks_successful + tasks_failed and is the number
\* of task_closed events in tasks.jsonl, the successful ones being those
\* closed as completed; every task_closed event follows a task_started
\* event of the same task id.
C38_ClosedTasksAreCounted ==
    /\ metrics.tasks_completed = metrics.tasks_successful + metrics.tasks_failed
    /\ metrics.tasks_completed = Cardinality(ClosedEvents({"completed", "failed"}))
    /\ metrics.tasks_successful = Cardinality(ClosedEvents({"completed"}))
    /\ metrics.tasks_failed = Cardinality(ClosedEvents({"failed"}))
    /\ \A k \in ClosedEvents({"completed", "failed"}) :
          \E j \in 1..(k - 1) :
              /\ tasks_log[j].event = "task_started"
              /\ tasks_log[j].task.id = tasks_log[k].task.id

\* One task was closed as completed and one as failed, a third is active,
\* and the last call, a start, was rejected.
C38_Witness ==
    /\ metrics.tasks_successful = 1
    /\ metrics.tasks_failed = 1
    /\ current_task # NoTask
    /\ tret.op = "start"
    /\ "raised" \in DOMAIN tret


\* ---- Properties of a loaded pattern store (SpecLoad) ----

\* A file holding a JSON object whose "patterns" field is a map.
HoldsPatternsMap(file) == file.kind = "json" /\ file.patterns.py = "map"

\* In every bucket of a normalized map total_count is the sum of the counts
\* of its signatures.
TotalsAreSums(patterns) ==
    \A k \in DOMAIN patterns.value :
        LET bucket == patterns.value[k].bucket
        IN  bucket.total_count = SumCounts(bucket.by_signature, DOMAIN bucket.by_signature)

\* load_learning on a file whose "patterns" is a map returns a store with
\* every type in the nested form.
LoadReturnsNormalized ==
    (lret'.op = "load" /\ HoldsPatternsMap(learning_file)) =>
        /\ ~lret'.raised
        /\ IsNormalized(lret'.patterns)

\* add_pattern on a file whose "patterns" is a map succeeds, for a type the
\* file has and for a new one, and leaves a normalized store whose counts
\* add up.
AddOnLoadedSucceeds ==
    (lret'.op = "add" /\ HoldsPatternsMap(learning_file)) =>
        /\ ~lret'.raised
        /\ HoldsPatternsMap(learning_file')
        /\ IsNormalized(learning_file'.patterns)
        /\ TotalsAreSums(learning_file'.patterns)

\* C39: for every persisted store whose "patterns" is a map, legacy stores
\* with an empty list or a list of non-records included, load returns every
\* type in the nested form, so that an observation added for any type
\* succeeds and keeps the counts.
C39_LoadedStoreTakesObservations == [][LoadReturnsNormalized /\ AddOnLoadedSucceeds]_vars


\* ------------------------------------------------- the hooks, one at a time
\* Most runs of a hook or of nexus_exec in one behaviour.
MaxHookRuns == 2

\* A tool response without any key ({}, and what main() takes for a
\* response that is not a dict).  success is "true", "false" or "absent";
\* exit_code is <<>> when absent, else <<n>>; a text that is absent is empty.
NoResponse ==
    [success |-> "absent", exit_code |-> <<>>, stdout |-> Empty, stderr |-> Empty,
     error |-> Empty]

\* A response of a tool: the keys the hooks read.
Response(success, exit_code, stdout, stderr, error) ==
    [success |-> success, exit_code |-> exit_code, stdout |-> stdout, stderr |-> stderr,
     error |-> error]

\* A hook event: tool_response is <<>> when it is not a dict, else <<r>>.
Event(tool_name, command, file_path, tool_response) ==
    [tool_name |-> tool_name,
     tool_input |-> [command |-> command, file_path |-> file_path, path |-> Empty],
     tool_response |-> tool_response, cwd |-> <<"/","w">>]

\* read_hook_event(): <<>> for {} (stdin empty, not JSON, or not an object),
\* else the object with its canonical fields.
read_hook_event(payload) ==
    IF payload.kind # "object" THEN <<>> ELSE <<payload.event>>

\* event.get("tool_response") if it is a dict, else {}
response_of(event) ==
    IF event.tool_response = <<>> THEN NoResponse ELSE event.tool_response[1]

\* nexus_self_heal._response_failed(response)
_response_failed(response) ==
    IF response.success = "false" THEN TRUE
    ELSE IF response.exit_code # <<>> /\ response.exit_code[1] # 0 THEN TRUE
    ELSE LET combined == Lower(response.stderr \o <<"\n">> \o response.error)
         IN  \E pattern \in {<<"t","r","a","c","e","b","a","c","k">>, <<"e","x","c","e","p","t","i","o","n">>, <<"s","y","n","t","a","x","e","r","r","o","r">>, <<"p","e","r","m","i","s","s","i","o","n"," ","d","e","n","i","e","d">>,
                             <<"n","o"," ","s","u","c","h"," ","f","i","l","e">>, <<"n","o","t"," ","f","o","u","n","d">>, <<"m","o","d","u","l","e","n","o","t","f","o","u","n","d","e","r","r","o","r">>, <<"f","a","t","a","l">>} :
                 Contains(combined, pattern)

\* re.search(r"\bword\b", text)
SearchWord(text, word) ==
    \E i \in 0..(Len(text) - Len(word)) :
        /\ SubSeq(text, i + 1, i + Len(word)) = word
        /\ (i = 0 \/ ~IsWord(text[i]))
        /\ (i + Len(word) = Len(text) \/ ~IsWord(text[i + Len(word) + 1]))

\* A classification that looks for a missing file before a refused
\* permission.
_classify_incident_file_first(response) ==
    LET text == Lower(Join(<<response.error, response.stderr, response.stdout>>, <<" ">>))
    IN  IF Contains(text, <<"n","o"," ","s","u","c","h"," ","f","i","l","e">>) \/ Contains(text, <<"n","o","t"," ","f","o","u","n","d">>)
        THEN <<"f","i","l","e","_","n","o","t","_","f","o","u","n","d">>
        ELSE IF Contains(text, <<"p","e","r","m","i","s","s","i","o","n"," ","d","e","n","i","e","d">>) THEN <<"p","e","r","m","i","s","s","i","o","n","_","d","e","n","i","e","d">>
        ELSE IF Contains(text, <<"m","o","d","u","l","e","n","o","t","f","o","u","n","d","e","r","r","o","r">>) \/ SearchWord(text, <<"i","m","p","o","r","t","e","r","r","o","r">>)
        THEN <<"i","m","p","o","r","t","_","e","r","r","o","r">>
        ELSE IF Contains(text, <<"s","y","n","t","a","x","e","r","r","o","r">>) \/ Contains(text, <<"p","a","r","s","e">>)
        THEN <<"s","y","n","t","a","x","_","e","r","r","o","r">>
        ELSE IF Contains(text, <<"t","i","m","e","o","u","t">>) THEN <<"t","i","m","e","o","u","t">>
        ELSE <<"t","o","o","l","_","f","a","i","l","u","r","e">>

\* nexus_self_heal._classify_incident(response)
_classify_incident(response) ==
    LET text == Lower(Join(<<response.error, response.stderr, response.stdout>>, <<" ">>))
    IN  IF Contains(text, <<"p","e","r","m","i","s","s","i","o","n"," ","d","e","n","i","e","d">>) THEN <<"p","e","r","m","i","s","s","i","o","n","_","d","e","n","i","e","d">>
        ELSE IF Contains(text, <<"n","o"," ","s","u","c","h"," ","f","i","l","e">>) \/ Contains(text, <<"n","o","t"," ","f","o","u","n","d">>)
        THEN <<"f","i","l","e","_","n","o","t","_","f","o","u","n","d">>
        ELSE IF Contains(text, <<"m","o","d","u","l","e","n","o","t","f","o","u","n","d","e","r","r","o","r">>) \/ SearchWord(text, <<"i","m","p","o","r","t","e","r","r","o","r">>)
        THEN <<"i","m","p","o","r","t","_","e","r","r","o","r">>
        ELSE IF Contains(text, <<"s","y","n","t","a","x","e","r","r","o","r">>) \/ Contains(text, <<"p","a","r","s","e">>)
        THEN <<"s","y","n","t","a","x","_","e","r","r","o","r">>
        ELSE IF Contains(text, <<"t","i","m","e","o","u","t">>) THEN <<"t","i","m","e","o","u","t">>
        ELSE <<"t","o","o","l","_","f","a","i","l","u","r","e">>

IsQuote(c) == c \in {"'", "\""}

\* Where No module named ['"]([^'"]+)['"] matches in stderr: <<start of the
\* group, end of the group>>.
ModuleNameMatches(stderr) ==
    LET prefix == <<"N","o"," ","m","o","d","u","l","e"," ","n","a","m","e","d"," ">>
        n == Len(prefix)
    IN  {<<i + n + 2, j - 1>> : i \in 0..(Len(stderr) - n), j \in 1..Len(stderr)} \cap
        {m \in (1..(Len(stderr) + 1)) \X (0..Len(stderr)) :
            /\ m[1] <= m[2]
            /\ m[1] - n - 2 >= 0
            /\ SubSeq(stderr, m[1] - n - 1, m[1] - 2) = prefix
            /\ IsQuote(stderr[m[1] - 1])
            /\ m[2] < Len(stderr)
            /\ IsQuote(stderr[m[2] + 1])
            /\ \A k \in m[1]..m[2] : ~IsQuote(stderr[k])}

\* nexus_self_heal._signature_for_incident(kind, response)
_signature_for_incident(kind, response) ==
    LET found == ModuleNameMatches(response.stderr)
    IN  IF kind = <<"i","m","p","o","r","t","_","e","r","r","o","r">> /\ found # {}
        THEN LET m == CHOOSE x \in found : \A y \in found : x[1] <= y[1]
             IN  <<"i","n","c","i","d","e","n","t",":","i","m","p","o","r","t",":">> \o SubSeq(response.stderr, m[1], m[2])
        ELSE <<"i","n","c","i","d","e","n","t",":">> \o kind

\* The incident main() of the self-heal hook builds.  Its id, timestamp and
\* copy of the tool response are left out.
heal_incident(event, incident_class, signature) ==
    LET response == response_of(event)
    IN  [source |-> "nexus_self_heal", tool_name |-> Or(event.tool_name, <<"u","n","k","n","o","w","n","_","t","o","o","l">>),
         status |-> "open"]
        @@ Incident(Or(response.error, Or(response.stderr, <<"t","o","o","l"," ","f","a","i","l","u","r","e">>)),
                    signature, Empty, incident_class, event.cwd,
                    event.tool_input.file_path, event.tool_input.path, Empty, Empty)

\* sm.update_msv({"blocked": True, "confidence": max(0.0, confidence - 0.1)})
blocked_state_vector(sv) ==
    [sv EXCEPT !.blocked = TRUE, !.confidence = Max(0, @ - 1)]


\* What the hooks find on stdin.
NoPayload == [kind |-> "empty"]

ObjectPayload(event) == [kind |-> "object", event |-> event]

\* A failed Bash call with the given output.
FailedBash(stdout, stderr, error) ==
    ObjectPayload(Event(<<"B","a","s","h">>, <<"p","y","t","h","o","n","3"," ","x",".","p","y">>, Empty,
                        <<Response("false", <<1>>, stdout, stderr, error)>>))

\* The payloads the hooks are run on: nothing; a successful call; a response
\* that is not a dict; failures of each class, told by the flag, by the exit
\* code or by the text alone; and texts that fit several classes.
HookPayloads ==
    {NoPayload,
     ObjectPayload(Event(<<"B","a","s","h">>, <<"l","s">>, Empty,
                         <<Response("true", <<0>>, <<"n","o","t"," ","f","o","u","n","d",":"," ","0">>, Empty, Empty)>>)),
     ObjectPayload(Event(Empty, Empty, Empty, <<>>)),
     FailedBash(Empty, <<"P","e","r","m","i","s","s","i","o","n"," ","d","e","n","i","e","d",":"," ","/","t","m","p","/","s",","," ","n","o","t"," ","f","o","u","n","d">>, Empty),
     FailedBash(<<"p","a","r","s","e"," ","t","i","m","e","o","u","t">>, Empty, <<"N","o"," ","s","u","c","h"," ","f","i","l","e",":"," ","a",".","p","y">>),
     ObjectPayload(Event(<<"B","a","s","h">>, <<"p","y","t","h","o","n","3"," ","x",".","p","y">>, Empty,
                         <<Response("absent", <<>>, Empty,
                                    <<"M","o","d","u","l","e","N","o","t","F","o","u","n","d","E","r","r","o","r",":"," ","N","o"," ","m","o","d","u","l","e"," ","n","a","m","e","d"," ","'","f","o","o","'">>,
                                    Empty)>>)),
     ObjectPayload(Event(<<"B","a","s","h">>, <<"p","y","t","h","o","n","3"," ","x",".","p","y">>, Empty,
                         <<Response("absent", <<1>>, <<"S","y","n","t","a","x","E","r","r","o","r">>,
                                    <<"I","m","p","o","r","t","E","r","r","o","r",":"," ","t","i","m","e","o","u","t">>, Empty)>>)),
     ObjectPayload(Event(<<"E","d","i","t">>, Empty, <<"a","p","p",".","p","y">>,
                         <<Response("false", <<>>, Empty, <<"S","y","n","t","a","x","E","r","r","o","r",":"," ","b","a","d"," ","p","a","r","s","e">>,
                                    Empty)>>)),
     FailedBash(<<"a","n","I","m","p","o","r","t","E","r","r","o","r","s">>, Empty, <<"T","i","m","e","o","u","t"," ","a","f","t","e","r"," ","5","s">>),
     FailedBash(<<"d","o","n","e">>, Empty, Empty)}

\* What the self-heal hook leaves alone, apart from nexus_exec's variables.
healFrame == <<nCalls, ret, pc, loc, attemptedBy, overlap, planIn, planOut, tmVars,
               psVars, smVars, gpc, root, fs, grun, gret, nGateRuns,
               NEXUS_GATE_RUNNING, fs_at_capture>>

\* main() of the self-heal hook from record_incident on.
HealRecord(event, incident) ==
    LET recorded == record_incident(incidents, metrics, incident)
        plan == _incident_to_fix_plan(incident, ProcessCwd)
    IN  /\ incidents' = recorded.log
        /\ metrics' = recorded.metrics
        /\ state_vector' = blocked_state_vector(state_vector)
        /\ learning' = add_pattern(learning, <<"i","n","c","i","d","e","n","t",":">> \o incident.incident_class,
                                   incident.signature, <<incident>>,
                                   <<"R","e","v","i","e","w"," ","i","n","c","i","d","e","n","t",","," ","a","p","p","l","y"," ","d","e","t","e","r","m","i","n","i","s","t","i","c"," ","f","i","x",","," ","r","e","r","u","n"," ","v","e","r","i","f","y","_","c","m","d",".">>,
                                   <<<<"p","y","t","h","o","n","3">>, <<"n","e","x","u","s","_","c","l","i",".","p","y">>, <<"f","i","x">>, <<"p","r","o","c","e","s","s","-","o","n","e">>>>,
                                   <<"f","a","i","l","u","r","e">>,
                                   [tool_name |-> incident.tool_name, cwd |-> incident.cwd])
        /\ queue' = add_fix_task(queue, nextId, incident, plan.suggested_fix,
                                 plan.verify_cmd)
        /\ added' = Append(added, [id |-> nextId, incident |-> incident,
                                   suggested_fix |-> plan.suggested_fix,
                                   verify_cmd |-> plan.verify_cmd])
        /\ nextId' = nextId + 1
        /\ hret' = [op |-> "self_heal", run |-> nHookRuns',
                    payload |-> ObjectPayload(event), printed |-> "incident",
                    incident_class |-> incident.incident_class,
                    fix_task_id |-> nextId, code |-> 0]

\* main() of the self-heal hook once the response is known to have failed.
HealFailure(event, incident_class) ==
    HealRecord(event, heal_incident(event, incident_class,
                   _signature_for_incident(incident_class, response_of(event))))

\* nexus_self_heal.main(); nexus_exec's variables are left to the caller.
SelfHealBody(payload) ==
    /\ IF read_hook_event(payload) = <<>>
       THEN /\ hret' = [op |-> "self_heal", run |-> nHookRuns', payload |-> payload,
                        printed |-> "ok: empty_event", code |-> 0]
            /\ UNCHANGED <<incidents, metrics, state_vector, learning, queue, added,
                           nextId>>
       ELSE IF ~_response_failed(response_of(payload.event))
       THEN /\ hret' = [op |-> "self_heal", run |-> nHookRuns', payload |-> payload,
                        printed |-> "ok: succeeded", code |-> 0]
            /\ UNCHANGED <<incidents, metrics, state_vector, learning, queue, added,
                           nextId>>
       ELSE HealFailure(payload.event, _classify_incident(response_of(payload.event)))
    /\ UNCHANGED healFrame

\* The self-heal hook run on its own, as a PostToolUse hook.
SelfHeal(payload) ==
    /\ bpc = "idle"
    /\ gpc = "idle"
    /\ nHookRuns < MaxHookRuns
    /\ nHookRuns' = nHookRuns + 1
    /\ SelfHealBody(payload)
    /\ UNCHANGED <<bpc, brun, bret>>

\* nexus_auto_learn._is_success(response)
_is_success(response) ==
    IF response.success = "false" THEN FALSE
    ELSE IF response.exit_code # <<>> /\ response.exit_code[1] # 0 THEN FALSE
    ELSE TRUE

\* nexus_auto_learn._signature(tool_name, tool_input, response); tool_input
\* has no "cmd" key.
_signature(tool_name, tool_input) ==
    IF tool_name = <<"B","a","s","h">>
    THEN IF tool_input.command # Empty
         THEN <<"b","a","s","h",":">> \o SubSeq(Strip(tool_input.command), 1,
                                Min(80, Len(Strip(tool_input.command))))
         ELSE <<"b","a","s","h",":","u","n","k","n","o","w","n">>
    ELSE IF tool_name \in {<<"E","d","i","t">>, <<"W","r","i","t","e">>, <<"R","e","a","d">>}
    THEN Lower(tool_name) \o <<":">>
         \o Or(tool_input.file_path, Or(tool_input.path, <<"u","n","k","n","o","w","n">>))
    ELSE IF tool_name # Empty THEN <<"t","o","o","l",":">> \o tool_name
    ELSE <<"t","o","o","l",":","u","n","k","n","o","w","n">>

\* main() of the auto-learn hook on an event that is not empty; the line it
\* appends to the session history, which nothing reads back, is left out.
LearnRecord(event, success) ==
    LET tool_name == Or(event.tool_name, <<"u","n","k","n","o","w","n">>)
        response == response_of(event)
        pattern_type == IF success THEN <<"t","o","o","l","_","u","s","e","_","s","u","c","c","e","s","s">> ELSE <<"t","o","o","l","_","u","s","e","_","f","a","i","l","u","r","e">>
        signature == _signature(tool_name, event.tool_input)
    IN  /\ learning' = add_pattern(learning, pattern_type, signature,
               <<[tool_name |-> tool_name, tool_input |-> event.tool_input,
                  tool_response |-> [success |-> response.success,
                                     exit_code |-> response.exit_code,
                                     error |-> response.error],
                  cwd |-> event.cwd]>>,
               <<"R","e","u","s","e"," ","s","u","c","c","e","s","s","f","u","l"," ","s","i","g","n","a","t","u","r","e","s",";"," ","i","n","s","p","e","c","t"," ","f","a","i","l","u","r","e","s"," ","f","o","r"," ","d","e","t","e","r","m","i","n","i","s","t","i","c"," ","c","o","r","r","e","c","t","i","o","n","s",".">>,
               <<<<"p","y","t","h","o","n","3">>, <<"g","e","n","e","r","a","t","e","_","q","u","a","l","i","t","y","_","r","e","p","o","r","t",".","p","y">>>>,
               IF success THEN <<"s","u","c","c","e","s","s">> ELSE <<"f","a","i","l","u","r","e">>,
               [tool_name |-> tool_name])
        /\ hret' = [op |-> "auto_learn", run |-> nHookRuns',
                    payload |-> ObjectPayload(event), printed |-> "pattern",
                    pattern_type |-> pattern_type, signature |-> signature, code |-> 0]

\* nexus_auto_learn.main(); nexus_exec's variables are left to the caller.
AutoLearnBody(payload) ==
    /\ IF read_hook_event(payload) = <<>>
       THEN /\ hret' = [op |-> "auto_learn", run |-> nHookRuns', payload |-> payload,
                        printed |-> "ok: empty_event", code |-> 0]
            /\ UNCHANGED learning
       ELSE LearnRecord(payload.event, _is_success(response_of(payload.event)))
    /\ UNCHANGED <<incidents, metrics, state_vector, queue, added, nextId, healFrame>>

\* The auto-learn hook run on its own, as a PostToolUse hook.
AutoLearn(payload) ==
    /\ bpc = "idle"
    /\ gpc = "idle"
    /\ nHookRuns < MaxHookRuns
    /\ nHookRuns' = nHookRuns + 1
    /\ AutoLearnBody(payload)
    /\ UNCHANGED <<bpc, brun, bret>>


\* The payloads the auto-learn hook is run on, on its own: nothing, a
\* successful call, a failed call.
LearnPayloads ==
    {NoPayload,
     ObjectPayload(Event(<<"B","a","s","h">>, <<"l","s">>, Empty,
                         <<Response("true", <<0>>, <<"n","o","t"," ","f","o","u","n","d",":"," ","0">>, Empty, Empty)>>)),
     FailedBash(<<"d","o","n","e">>, Empty, Empty)}

\* What a gate run leaves alone when it runs from start to end, apart from
\* the variables of the hooks.
runFrame == <<nCalls, ret, pc, loc, attemptedBy, overlap, planIn, planOut, now,
              policy, nextTaskId, nTaskCalls, psVars, smVars, root, gpc, grun,
              NEXUS_GATE_RUNNING>>

\* quality_gate.main() from the metrics to the end, with what the checks
\* gave: the metrics, the observation, the report to the task manager and,
\* when the run failed, the rollback, the incident and the fix task.
GateRunRecorded(candidate, summary, snap, r, failed_check, saved, obs) ==
    LET example == [changed_files |-> summary.count,
                    rollback_count_before |-> metrics.rollback_count,
                    rollback_count_after |-> saved.rollback_count]
        pass == record_quality_gate_pass(current_task, tasks_log, saved, active_task,
                                         now, policy, _summarize_checks(r.checks))
        fail == record_quality_gate_fail(current_task, now, obs.signature)
        restored == rollback(root, fs, snap)
        incident == gate_incident(failed_check, obs.signature, candidate,
                                  restored.method, obs.suggested_action)
        recorded == record_incident(incidents, saved, incident)
        plan == _incident_to_fix_plan(incident, ProcessCwd)
    IN  /\ learning' = add_pattern(learning, obs.pattern_type, obs.signature,
                                   <<example>>, obs.suggested_action,
                                   <<<<"p","y","t","h","o","n","3">>, <<"q","u","a","l","i","t","y","_","g","a","t","e",".","p","y">>>>, obs.outcome,
                                   [changed_files_count |-> summary.count])
        /\ IF r.passed
           THEN /\ current_task' = pass.file
                /\ tasks_log' = pass.log
                /\ metrics' = pass.metrics
                /\ active_task' = pass.active_task
                /\ tret' = [op |-> "pass", result |-> pass.result]
                /\ gret' = [op |-> "main", passed |-> TRUE, code |-> 0]
                /\ UNCHANGED <<fs, incidents, queue, added, nextId>>
           ELSE /\ current_task' = fail.file
                /\ tret' = [op |-> "fail", result |-> fail.result,
                            signature |-> obs.signature]
                /\ fs' = restored.tree
                /\ incidents' = recorded.log
                /\ metrics' = recorded.metrics
                /\ queue' = add_fix_task(queue, nextId, incident, plan.suggested_fix,
                                         plan.verify_cmd)
                /\ added' = Append(added, [id |-> nextId, incident |-> incident,
                                           suggested_fix |-> plan.suggested_fix,
                                           verify_cmd |-> plan.verify_cmd])
                /\ nextId' = nextId + 1
                /\ gret' = [op |-> "main", passed |-> FALSE, code |-> 2,
                            rolled_back |-> TRUE, rollback_method |-> restored.method,
                            failed_signature |-> obs.signature, fix_task_id |-> nextId]
                /\ UNCHANGED <<tasks_log, active_task>>

\* quality_gate.main() after the checks.
GateRunChecked(candidate, summary, r, failed_check) ==
    GateRunRecorded(candidate, summary, snapshot_files(fs, summary.files), r,
                    failed_check, gate_metrics(metrics, r.passed, failed_check),
                    gate_observation(r.passed, failed_check))

\* quality_gate.main() after the summary of the changed files.
GateRunSummed(candidate, summary, r) ==
    GateRunChecked(candidate, summary, r, _first_failed_check(r.checks))

\* quality_gate.main() run from start to end with no other call and no edit
\* in between, by a process that does not have NEXUS_GATE_RUNNING set; the
\* variables of the hooks are left to the caller.
GateRunBody(candidate, met) ==
    /\ LET summary == changed_files_summary(git_present(fs), git_diff_names(root, fs),
                                            candidate)
       IN  GateRunSummed(candidate, summary,
               quality_checks(root, fs, summary,
                              IF git_diff_names(root, fs) = <<>> THEN 0 ELSE met.delta,
                              met.procs))
    /\ nGateRuns' = nGateRuns + 1
    /\ fs_at_capture' = fs
    /\ UNCHANGED runFrame

\* The quality gate run on its own, as a PostToolUse hook.
GateRun(candidate, met) ==
    /\ bpc = "idle"
    /\ gpc = "idle"
    /\ ~main_guard(NEXUS_GATE_RUNNING).skip
    /\ Range(candidate) \subseteq DOMAIN fs
    /\ nHookRuns < MaxHookRuns
    /\ nHookRuns' = nHookRuns + 1
    /\ GateRunBody(candidate, met)
    /\ UNCHANGED <<bpc, brun, bret, hret, state_vector>>

\* The file a run of the gate is told of, in the pipeline.
PipeCandidates == {<<>>, <<<<"a","p","p",".","p","y">>>>}

\* What the checks meet in the pipeline: all pass, one runs into its
\* timeout, several fail.
PipeCheckRuns ==
    {[delta |-> DIFF_LIMIT, procs |-> AllPassing],
     [delta |-> DIFF_LIMIT, procs |-> [AllPassing EXCEPT !.pytest = TimedOut]],
     [delta |-> DIFF_LIMIT + 1,
      procs |-> [AllPassing EXCEPT !.ruff = RuffRule, !.py_compileall = SyntaxFailed]]}

\* What the verify command of a fix task does in the pipeline: it exits
\* with 0, exits with 1, or outlasts the timeout.
PipeVerifyRuns ==
    {[spawns |-> TRUE, runtime |-> 15000, returncode |-> 0],
     [spawns |-> TRUE, runtime |-> 15000, returncode |-> 1],
     [spawns |-> TRUE, runtime |-> VerifyTimeout + 1, returncode |-> 0]}

\* Empty stores; a Python project or a git repository as the root; one task
\* is active, which the first passing gate run closes.
InitPipeline ==
    /\ queue = <<>>
    /\ learning = _init_learning
    /\ metrics = _metrics_defaults
    /\ nextId = 1
    /\ nCalls = 0
    /\ added = <<>>
    /\ ret = [op |-> "none"]
    /\ pc = [p \in Procs |-> "idle"]
    /\ loc = [p \in Procs |-> NoLocals]
    /\ attemptedBy = [p \in Procs |-> {}]
    /\ overlap = FALSE
    /\ planIn = GatePytestIncident
    /\ planOut = NoPlan
    /\ LET r == start_task(NoTask, <<>>, 0, 0, 1, <<"s","h","i","p">>)
       IN  /\ current_task = r.file
           /\ tasks_log = r.log
           /\ active_task = r.active_task
    /\ nextTaskId = 2
    /\ policy = [auto_close |-> "1", min_passes |-> 1]
    /\ now = 0
    /\ nTaskCalls = 0
    /\ tret = [op |-> "none"]
    /\ pcall = [op |-> "none"]
    /\ nPatCalls = 0
    /\ FileIdle
    /\ gpc = "idle"
    /\ \E r \in {[project |-> PyProject, tree |-> PyTree],
                 [project |-> GitProject, tree |-> GitTree]} :
          root = r.project /\ fs = r.tree
    /\ grun = NoRun
    /\ incidents = <<>>
    /\ gret = [op |-> "none"]
    /\ nGateRuns = 0
    /\ NEXUS_GATE_RUNNING = FALSE
    /\ fs_at_capture = fs
    /\ HooksIdle

\* ------------------------------------------------------------- nexus_exec
\* The exit code nexus_exec gives a command its preflight refused.
PreflightRefused == 97

\* What the preflight finds out about the command: the kind of its Python
\* target ("none" for a command that is not Python), whether the file
\* exists, whether the source parses, the imports that do not resolve,
\* whether py_compile accepts the file, what ruff says ("absent" when it
\* is not installed), whether the module of -m resolves.
Scan(kind, exists, parses, missing, compiles, ruff, module_ok) ==
    [kind |-> kind, exists |-> exists, parses |-> parses, missing |-> missing,
     compiles |-> compiles, ruff |-> ruff, module_ok |-> module_ok]

Check(name, ok, detail) == [name |-> name, ok |-> ok, detail |-> detail]

\* nexus_exec._run_preflight_for_source(source, cwd, source_path)
_run_preflight_for_source(scan, has_path) ==
    IF ~scan.parses
    THEN <<Check(<<"a","s","t","_","p","a","r","s","e">>, FALSE, <<"S","y","n","t","a","x","E","r","r","o","r",":"," ","i","n","v","a","l","i","d"," ","s","y","n","t","a","x">>)>>
    ELSE <<Check(<<"a","s","t","_","p","a","r","s","e">>, TRUE, <<"s","y","n","t","a","x"," ","p","a","r","s","e"," ","o","k">>),
           Check(<<"i","m","p","o","r","t","_","s","m","o","k","e">>, scan.missing = <<>>,
                 IF scan.missing = <<>> THEN <<"a","l","l"," ","i","m","p","o","r","t","s"," ","r","e","s","o","l","v","a","b","l","e">>
                 ELSE <<"m","i","s","s","i","n","g"," ","i","m","p","o","r","t","s",":"," ">> \o Join(scan.missing, <<","," ">>))>>
         \o (IF has_path
             THEN <<Check(<<"p","y","_","c","o","m","p","i","l","e">>, scan.compiles,
                          IF scan.compiles THEN <<"o","k">> ELSE <<"c","o","m","p","i","l","e"," ","e","r","r","o","r">>)>>
             ELSE <<>>)
         \o (IF scan.ruff # "absent"
             THEN <<Check(<<"r","u","f","f">>, scan.ruff = "ok",
                          IF scan.ruff = "ok" THEN <<"A","l","l"," ","c","h","e","c","k","s"," ","p","a","s","s","e","d","!">>
                          ELSE <<"F","4","0","1"," ","u","n","u","s","e","d"," ","i","m","p","o","r","t">>)>>
             ELSE <<>>)

\* nexus_exec._run_preflight(command_args, cwd, use_shell)
_run_preflight(scan) ==
    IF scan.kind = "none"
    THEN [ran |-> FALSE, passed |-> TRUE,
          checks |-> <<Check(<<"s","k","i","p">>, TRUE, <<"n","o","n","-","p","y","t","h","o","n"," ","c","o","m","m","a","n","d">>)>>]
    ELSE LET checks ==
                 IF scan.kind = "file"
                 THEN IF ~scan.exists
                      THEN <<Check(<<"f","i","l","e","_","e","x","i","s","t","s">>, FALSE, <<"m","i","s","s","i","n","g"," ","f","i","l","e",":"," ","/","w","/","m","a","i","n",".","p","y">>)>>
                      ELSE <<Check(<<"f","i","l","e","_","e","x","i","s","t","s">>, TRUE, <<"/","w","/","m","a","i","n",".","p","y">>)>>
                           \o _run_preflight_for_source(scan, TRUE)
                 ELSE IF scan.kind = "inline"
                 THEN _run_preflight_for_source(scan, FALSE)
                 ELSE <<Check(<<"m","o","d","u","l","e","_","s","p","e","c">>, scan.module_ok,
                              IF scan.module_ok THEN <<"m","o","d","u","l","e"," ","a","p","p"," ","r","e","s","o","l","v","a","b","l","e">>
                              ELSE <<"m","o","d","u","l","e"," ","a","p","p"," ","n","o","t"," ","f","o","u","n","d">>)>>
         IN  [ran |-> TRUE, passed |-> \A i \in 1..Len(checks) : checks[i].ok,
              checks |-> checks]

\* The preflight result of main() when --skip-preflight is given.
PreflightDisabled ==
    [ran |-> FALSE, passed |-> TRUE, checks |-> <<Check(<<"s","k","i","p">>, TRUE, <<"d","i","s","a","b","l","e","d">>)>>]

\* nexus_exec._format_preflight_failure(preflight)
_format_preflight_failure(preflight) ==
    LET failed == SelectSeq(preflight.checks, LAMBDA check : ~check.ok)
    IN  Join(<<<<"N","E","X","U","S"," ","p","r","e","f","l","i","g","h","t"," ","f","a","i","l","e","d",";"," ","c","o","m","m","a","n","d"," ","w","a","s"," ","n","o","t"," ","e","x","e","c","u","t","e","d",".">>>>
             \o [i \in 1..Len(failed) |->
                    <<"-"," ">> \o failed[i].name \o <<":"," ">> \o failed[i].detail],
             <<"\n">>)

\* A bridge that runs the command whatever the preflight says.
command_outcome_running_anyway(preflight, cmd) ==
    [executed |-> TRUE, rc |-> cmd.returncode, stdout |-> cmd.stdout,
     stderr |-> cmd.stderr]

\* main(): the command is run unless the preflight ran and did not pass;
\* cmd is what the command does when it is run.
command_outcome(preflight, cmd) ==
    IF preflight.ran /\ ~preflight.passed
    THEN [executed |-> FALSE, rc |-> PreflightRefused, stdout |-> Empty,
          stderr |-> _format_preflight_failure(preflight)]
    ELSE [executed |-> TRUE, rc |-> cmd.returncode, stdout |-> cmd.stdout,
          stderr |-> cmd.stderr]

\* nexus_exec._build_event, as the payload the hooks read from stdin; the
\* duration, the preflight and the timestamp, which no hook reads, are left
\* out.
_build_event(command_str, rc, stdout, stderr) ==
    ObjectPayload(Event(<<"B","a","s","h">>, command_str, Empty,
                        <<Response(IF rc = 0 THEN "true" ELSE "false", <<rc>>,
                                   stdout, stderr, Empty)>>))

\* What a step of main() that was not taken leaves in the summary.
NotRun == [ran |-> FALSE, exit_code |-> 0]

\* overall_exit of main()
overall_exit(command_rc, quality_gate) ==
    IF command_rc = 0 /\ quality_gate.exit_code # 0 THEN quality_gate.exit_code
    ELSE command_rc

\* The options nexus_exec is called with.
Args(command, skip_preflight, skip_quality_gate, skip_auto_learn, process_fix_one) ==
    [command |-> command, skip_preflight |-> skip_preflight,
     skip_quality_gate |-> skip_quality_gate, skip_auto_learn |-> skip_auto_learn,
     process_fix_one |-> process_fix_one]

\* The calls of nexus_exec: no command; a command with every step on; a
\* command with the preflight, the gate, the learning and the fix step off.
BridgeArgs ==
    {Args(Empty, FALSE, FALSE, FALSE, FALSE),
     Args(<<"p","y","t","h","o","n","3"," ","m","a","i","n",".","p","y">>, FALSE, FALSE, FALSE, TRUE),
     Args(<<"p","y","t","h","o","n","3"," ","m","a","i","n",".","p","y">>, TRUE, TRUE, TRUE, FALSE)}

\* What the preflight meets: a command that is not Python; a file that
\* imports a missing module (the case of the test); a file that is in order;
\* a module that does not resolve.
Scans ==
    {Scan("none", FALSE, FALSE, <<>>, FALSE, "absent", FALSE),
     Scan("file", TRUE, TRUE, <<<<"d","e","f","i","n","i","t","e","l","y","_","m","i","s","s","i","n","g">>>>, TRUE, "absent", FALSE),
     Scan("file", TRUE, TRUE, <<>>, TRUE, "ok", FALSE),
     Scan("module", FALSE, FALSE, <<>>, FALSE, "absent", FALSE)}

\* What the command does when it is run.
CommandRuns ==
    {Exited(0, <<"h","e","l","l","o">>, Empty), Exited(1, Empty, <<"T","r","a","c","e","b","a","c","k",":"," ","b","o","o","m">>)}

\* main() up to the event: the arguments are read, the preflight is run, the
\* command is run or refused.  Without a command main() prints an error and
\* returns 2.
BridgeStart(args, scan, cmd) ==
    /\ bpc = "idle"
    /\ gpc = "idle"
    /\ nHookRuns < MaxHookRuns
    /\ nHookRuns' = nHookRuns + 1
    /\ IF args.command = Empty
       THEN /\ bret' = [op |-> "main", run |-> nHookRuns', code |-> 2,
                        error |-> "no command provided"]
            /\ UNCHANGED <<bpc, brun>>
       ELSE LET preflight == IF args.skip_preflight THEN PreflightDisabled
                             ELSE _run_preflight(scan)
                outcome == command_outcome(preflight, cmd)
            IN  /\ brun' = [args |-> args, preflight |-> preflight,
                            executed |-> outcome.executed, command_rc |-> outcome.rc,
                            event |-> _build_event(args.command, outcome.rc,
                                                   outcome.stdout, outcome.stderr),
                            quality_gate |-> NotRun, self_heal |-> NotRun,
                            auto_learn |-> NotRun, fix_process_one |-> NotRun,
                            incidents_before |-> Len(incidents),
                            fix_before |-> Len(queue)]
                /\ bpc' = "gate"
                /\ UNCHANGED bret
    /\ UNCHANGED <<hret, state_vector, queue, learning, metrics, nextId, nCalls, added,
                   ret, pc, loc, attemptedBy, overlap, planIn, planOut, tmVars, psVars,
                   smVars, qgVars>>

\* main(): the quality gate hook, unless --skip-quality-gate is given.  The
\* event names no file.
BridgeGate(met) ==
    /\ bpc = "gate"
    /\ bpc' = "heal"
    /\ IF brun.args.skip_quality_gate
       THEN /\ brun' = brun
            /\ UNCHANGED <<queue, learning, metrics, nextId, nCalls, added, ret, pc, loc,
                           attemptedBy, overlap, planIn, planOut, tmVars, psVars, smVars,
                           qgVars>>
       ELSE /\ GateRunBody(<<>>, met)
            /\ brun' = [brun EXCEPT !.quality_gate =
                                        [ran |-> TRUE, exit_code |-> gret'.code]]
    /\ UNCHANGED <<bret, hret, nHookRuns, state_vector>>

\* main(): the self-heal hook, when the command's exit code is not 0.
BridgeHeal ==
    /\ bpc = "heal"
    /\ bpc' = "learn"
    /\ UNCHANGED nHookRuns
    /\ IF brun.command_rc # 0
       THEN /\ SelfHealBody(brun.event)
            /\ brun' = [brun EXCEPT !.self_heal = [ran |-> TRUE, exit_code |-> hret'.code]]
       ELSE /\ brun' = brun
            /\ UNCHANGED <<hret, state_vector, queue, learning, metrics, nextId, nCalls,
                           added, ret, pc, loc, attemptedBy, overlap, planIn, planOut,
                           tmVars, psVars, smVars, qgVars>>
    /\ UNCHANGED bret

\* main(): the auto-learn hook, unless --skip-auto-learn is given.
BridgeLearn ==
    /\ bpc = "learn"
    /\ bpc' = "fix"
    /\ UNCHANGED nHookRuns
    /\ IF ~brun.args.skip_auto_learn
       THEN /\ AutoLearnBody(brun.event)
            /\ brun' = [brun EXCEPT !.auto_learn = [ran |-> TRUE, exit_code |-> hret'.code]]
       ELSE /\ brun' = brun
            /\ UNCHANGED <<hret, state_vector, queue, learning, metrics, nextId, nCalls,
                           added, ret, pc, loc, attemptedBy, overlap, planIn, planOut,
                           tmVars, psVars, smVars, qgVars>>
    /\ UNCHANGED bret

\* The summary main() prints and the code it returns; executed,
\* incidents_before and fix_before are history fields.
Summary(b, fix_process_one) ==
    [op |-> "main", run |-> nHookRuns,
     code |-> overall_exit(b.command_rc, b.quality_gate),
     command |-> b.args.command,
     preflight |-> [ran |-> b.preflight.ran, passed |-> b.preflight.passed],
     command_exit_code |-> b.command_rc,
     quality_gate |-> b.quality_gate, self_heal |-> b.self_heal,
     auto_learn |-> b.auto_learn, fix_process_one |-> fix_process_one,
     overall_exit_code |-> overall_exit(b.command_rc, b.quality_gate),
     executed |-> b.executed, incidents_before |-> b.incidents_before,
     fix_before |-> b.fix_before]

\* main() to its end: nexus_cli fix process-one when --process-fix-one is
\* given (nexus_cli returns 1 when process_one_task raises), then the summary.
BridgeFix(verify) ==
    /\ bpc = "fix"
    /\ bpc' = "idle"
    /\ brun' = [op |-> "none"]
    /\ IF brun.args.process_fix_one
       THEN /\ ProcessOneTaskBody("manual", verify)
            /\ bret' = Summary(brun, [ran |-> TRUE,
                                      exit_code |-> IF "raised" \in DOMAIN ret'
                                                    THEN 1 ELSE 0])
       ELSE /\ bret' = Summary(brun, NotRun)
            /\ UNCHANGED <<queue, learning, metrics, nextId, nCalls, added, ret, pc, loc,
                           attemptedBy, overlap, planIn, planOut, tmVars, psVars, smVars,
                           qgVars>>
    /\ UNCHANGED <<hret, nHookRuns, state_vector>>

\* What the verify command does when nexus_exec has a fix task processed:
\* it exits with 0, or it outlasts the timeout.
BridgeVerifyRuns ==
    {[spawns |-> TRUE, runtime |-> 15000, returncode |-> 0],
     [spawns |-> TRUE, runtime |-> VerifyTimeout + 1, returncode |-> 0]}

\* What the checks of the gate meet when nexus_exec runs it: all pass, or
\* one fails.
BridgeCheckRuns ==
    {[delta |-> DIFF_LIMIT, procs |-> AllPassing],
     [delta |-> DIFF_LIMIT, procs |-> [AllPassing EXCEPT !.pytest = PytestFailed]]}

NextPipeline ==
    \/ \E payload \in HookPayloads : SelfHeal(payload)
    \/ \E payload \in LearnPayloads : AutoLearn(payload)
    \/ \E candidate \in PipeCandidates, met \in PipeCheckRuns : GateRun(candidate, met)
    \/ \E verify \in PipeVerifyRuns : bpc = "idle" /\ ProcessOneTask("manual", verify)
    \/ \E args \in BridgeArgs, scan \in Scans, cmd \in CommandRuns :
          BridgeStart(args, scan, cmd)
    \/ \E met \in BridgeCheckRuns : BridgeGate(met)
    \/ BridgeHeal
    \/ BridgeLearn
    \/ \E verify \in BridgeVerifyRuns : BridgeFix(verify)

\* The hooks, nexus_exec and the fix queue, each invocation run to its end
\* before the next starts.
SpecPipeline == InitPipeline /\ [][NextPipeline]_vars


\* ---- Properties of the hooks and of nexus_exec (SpecPipeline) ----

\* A step in which an incident is recorded.
IncidentRecorded == incidents' # incidents

\* The log only grows, by one incident per step, and an incident is counted
\* once as recorded and once as open in the step that appends it; a step
\* that appends nothing leaves incidents_total alone.
IncidentLogAppendOnly ==
    /\ IsPrefix(incidents, incidents')
    /\ IncidentRecorded =>
          /\ Len(incidents') = Len(incidents) + 1
          /\ metrics'.incidents_total = metrics.incidents_total + 1
          /\ metrics'.incidents_open = metrics.incidents_open + 1
    /\ ~IncidentRecorded => metrics'.incidents_total = metrics.incidents_total

\* C31: record_incident appends exactly one record to the incident log and
\* adds exactly 1 to incidents_total and to incidents_open; no step changes
\* or removes an incident already in the log; the number of logged incidents
\* always equals incidents_total.
C31_IncidentLogIsAppendOnlyAndCounted ==
    /\ [](Len(incidents) = metrics.incidents_total)
    /\ [][IncidentLogAppendOnly]_vars

\* Two incidents are in the log, one of the gate and one of the self-heal
\* hook, and a fix task has been processed since.
C31_Witness ==
    /\ Len(incidents) = 2
    /\ metrics.incidents_total = 2
    /\ \E i, j \in 1..2 : /\ incidents[i].source = "quality_gate"
                          /\ incidents[j].source = "nexus_self_heal"
    /\ \E i \in 1..Len(queue) : queue[i].status \in {"completed", "failed"}


\* A step in which the self-heal hook runs.
HealStep == hret' # hret /\ hret'.op = "self_heal"

\* The classes in the order of their priority, with the texts that mark
\* each; tool_failure is marked by nothing and fits every response.
ClassOrder ==
    <<[class |-> <<"p","e","r","m","i","s","s","i","o","n","_","d","e","n","i","e","d">>, marks |-> {<<"p","e","r","m","i","s","s","i","o","n"," ","d","e","n","i","e","d">>}, words |-> {}],
      [class |-> <<"f","i","l","e","_","n","o","t","_","f","o","u","n","d">>, marks |-> {<<"n","o"," ","s","u","c","h"," ","f","i","l","e">>, <<"n","o","t"," ","f","o","u","n","d">>}, words |-> {}],
      [class |-> <<"i","m","p","o","r","t","_","e","r","r","o","r">>, marks |-> {<<"m","o","d","u","l","e","n","o","t","f","o","u","n","d","e","r","r","o","r">>},
       words |-> {<<"i","m","p","o","r","t","e","r","r","o","r">>}],
      [class |-> <<"s","y","n","t","a","x","_","e","r","r","o","r">>, marks |-> {<<"s","y","n","t","a","x","e","r","r","o","r">>, <<"p","a","r","s","e">>}, words |-> {}],
      [class |-> <<"t","i","m","e","o","u","t">>, marks |-> {<<"t","i","m","e","o","u","t">>}, words |-> {}],
      [class |-> <<"t","o","o","l","_","f","a","i","l","u","r","e">>, marks |-> {Empty}, words |-> {}]>>

\* The response's texts carry a mark of the k-th class.
FitsClass(k, response) ==
    LET text == Lower(response.error \o <<" ">> \o response.stderr \o <<" ">> \o response.stdout)
    IN  \/ \E mark \in ClassOrder[k].marks : Contains(text, mark)
        \/ \E word \in ClassOrder[k].words : SearchWord(text, word)

\* The class of highest priority the response fits.
PriorityClass(response) ==
    ClassOrder[CHOOSE k \in 1..Len(ClassOrder) :
                   /\ FitsClass(k, response)
                   /\ \A j \in 1..(k - 1) : ~FitsClass(j, response)].class

\* The hook ran on an event whose response failed: one incident of the
\* class of highest priority is appended, one pending task for that incident
\* is appended to the queue, nothing else in the log or the queue changes.
HealRecordsFailure ==
    LET response == response_of(hret'.payload.event)
    IN  /\ Len(incidents') = Len(incidents) + 1
        /\ IsPrefix(incidents, incidents')
        /\ incidents'[Len(incidents')].incident_class = PriorityClass(response)
        /\ incidents'[Len(incidents')].source = "nexus_self_heal"
        /\ Len(queue') = Len(queue) + 1
        /\ IsPrefix(queue, queue')
        /\ queue'[Len(queue')].status = "pending"
        /\ queue'[Len(queue')].incident = incidents'[Len(incidents')]
        /\ hret'.code = 0

\* The hook ran on no event or on a response that did not fail.
HealRecordsNothing ==
    /\ incidents' = incidents
    /\ queue' = queue
    /\ metrics' = metrics
    /\ hret'.code = 0

\* C32: the self-heal hook, run on an event whose tool response failed,
\* records exactly one incident, of the class the priority
\* permission_denied > file_not_found > import_error > syntax_error >
\* timeout > tool_failure gives, queues exactly one pending fix task for it
\* and returns 0; run on an empty event or on a response that did not fail
\* it records no incident, queues no task and returns 0.
C32_SelfHealRecordsOneIncidentByPriority ==
    [][HealStep =>
         IF hret'.payload.kind = "object"
            /\ _response_failed(response_of(hret'.payload.event))
         THEN HealRecordsFailure
         ELSE HealRecordsNothing]_vars

\* The hook has just recorded a refused permission for a response whose
\* text also names a missing file, and its task is pending.
C32_Witness ==
    /\ hret.op = "self_heal"
    /\ hret.printed = "incident"
    /\ hret.incident_class = <<"p","e","r","m","i","s","s","i","o","n","_","d","e","n","i","e","d">>
    /\ FitsClass(2, response_of(hret.payload.event))
    /\ Len(incidents) = 2
    /\ queue[Len(queue)].status = "pending"
    /\ queue[Len(queue)].incident = incidents[2]


\* The tasks of the queue with the given status.
TasksWithStatus(tasks, status) == {i \in 1..Len(tasks) : tasks[i].status = status}

\* incidents_open is incidents_total less the completed fix tasks, and lies
\* between 0 and incidents_total.
OpenIsTotalLessCompleted ==
    /\ metrics.incidents_open
         = metrics.incidents_total - Cardinality(TasksWithStatus(queue, "completed"))
    /\ 0 <= metrics.incidents_open
    /\ metrics.incidents_open <= metrics.incidents_total

\* A step in which a task ends failed leaves incidents_open as it was.
FailedTaskStaysOpen ==
    TasksWithStatus(queue', "failed") # TasksWithStatus(queue, "failed")
    => metrics'.incidents_open = metrics.incidents_open

\* C36: from empty stores, under gate runs, self-heal runs and
\* process_one_task calls each run to its end before the next starts,
\* incidents_open equals incidents_total minus the number of completed fix
\* tasks, so 0 <= incidents_open <= incidents_total; a task that ends
\* failed leaves its incident counted as open.
C36_OpenIncidentsFollowCompletedTasks ==
    /\ []OpenIsTotalLessCompleted
    /\ [][FailedTaskStaysOpen]_vars

\* Two incidents were recorded, by the gate and by the self-heal hook; the
\* task of one ended completed and the task of the other failed, so one
\* incident is still open.
C36_Witness ==
    /\ metrics.incidents_total = 2
    /\ metrics.incidents_open = 1
    /\ Cardinality(TasksWithStatus(queue, "completed")) = 1
    /\ Cardinality(TasksWithStatus(queue, "failed")) = 1
    /\ \E i, j \in 1..Len(incidents) : /\ incidents[i].source = "quality_gate"
                                       /\ incidents[j].source = "nexus_self_heal"


\* total_count of a pattern type in the store, 0 when the type has no
\* bucket.
TotalCount(store, pattern_type) ==
    IF pattern_type \in DOMAIN store.patterns
    THEN store.patterns[pattern_type].total_count ELSE 0

\* C37: from empty stores, under gate runs that are not skipped and run one
\* at a time, metrics.runs is the total_count of quality_gate_pass plus the
\* total_count of quality_gate_fail, metrics.rollback_count is the
\* total_count of quality_gate_fail, and so rollback_count <= runs.
C37_GateCountersMatchObservations ==
    /\ metrics.runs = TotalCount(learning, <<"q","u","a","l","i","t","y","_","g","a","t","e","_","p","a","s","s">>)
                      + TotalCount(learning, <<"q","u","a","l","i","t","y","_","g","a","t","e","_","f","a","i","l">>)
    /\ metrics.rollback_count = TotalCount(learning, <<"q","u","a","l","i","t","y","_","g","a","t","e","_","f","a","i","l">>)
    /\ metrics.rollback_count <= metrics.runs

\* The gate has run twice, once passing and once failing.
C37_Witness ==
    /\ metrics.runs = 2
    /\ metrics.rollback_count = 1
    /\ TotalCount(learning, <<"q","u","a","l","i","t","y","_","g","a","t","e","_","p","a","s","s">>) = 1
    /\ TotalCount(learning, <<"q","u","a","l","i","t","y","_","g","a","t","e","_","f","a","i","l">>) = 1


\* nexus_exec has returned from a run whose preflight ran and did not pass.
RefusedRunReturned ==
    /\ bret.op = "main"
    /\ "preflight" \in DOMAIN bret
    /\ bret.preflight.ran
    /\ ~bret.preflight.passed

\* C33: when the preflight of nexus_exec ran and did not pass, the command
\* is not executed, command_exit_code is 97, the overall exit code is not 0,
\* the self-heal hook has run, and there are more incidents and more fix
\* tasks than before the run.
C33_RefusedCommandGoesThroughPipeline ==
    RefusedRunReturned =>
        /\ ~bret.executed
        /\ bret.command_exit_code = PreflightRefused
        /\ bret.overall_exit_code # 0
        /\ bret.code # 0
        /\ bret.self_heal.ran
        /\ Len(incidents) > bret.incidents_before
        /\ \E i \in (bret.incidents_before + 1)..Len(incidents) :
               incidents[i].source = "nexus_self_heal"
        /\ Len(queue) > bret.fix_before

\* nexus_exec has just returned 97 for a file that imports a missing module,
\* in a run that started with an incident and a task already there; the gate
\* passed, and the self-heal hook has added one incident and one task.
C33_Witness ==
    /\ RefusedRunReturned
    /\ bpc = "idle"
    /\ bret.run = nHookRuns
    /\ bret.code = PreflightRefused
    /\ bret.incidents_before = 1
    /\ bret.fix_before = 1
    /\ bret.quality_gate = [ran |-> TRUE, exit_code |-> 0]
    /\ Len(incidents) = 2
    /\ Len(queue) = 2
    /\ Contains(incidents[2].error, <<"m","i","s","s","i","n","g"," ","i","m","p","o","r","t","s",":"," ","d","e","f","i","n","i","t","e","l","y","_","m","i","s","s","i","n","g">>)

====
